---- MODULE Spec2Model ----
(***************************************************************************)
(* Lesson processing pipeline of refret (backend/app/routers/lessons.py,   *)
(* backend/app/services/audio.py, backend/app/services/store.py) and the   *)
(* transcription request (backend/app/routers/transcribe.py,               *)
(* backend/app/services/transcription.py).                                 *)
(*                                                                         *)
(* The state is the data directory: one folder per lesson id holding the   *)
(* audio files, the derived artifacts, status.json and metadata.json, plus *)
(* the background tasks FastAPI runs in its thread pool.  Request handlers *)
(* are `async def` without an await, so they run one at a time on the      *)
(* event loop; background tasks are plain functions and run concurrently   *)
(* with the handlers and with each other.                                  *)
(*                                                                         *)
(* Progress values are kept in hundredths (0.05 is 5, 1.0 is 100).         *)
(***************************************************************************)
EXTENDS Integers, Sequences, FiniteSets, TLC

\* ------------------------------------------------------------------ bounds
MaxClock == 2
MaxUploads == 2
MaxTasks == 2
MaxDeletes == 1

Lessons == 1..MaxClock
TaskIds == 1..MaxTasks

\* --------------------------------------------------------- files and values
\* The files of a lesson folder whose content is tracked as an integer:
\* 0 is "no such file".  A separated track holds the id of the task that
\* wrote it, a peak series the track version it was computed from (or
\* EmptyPeaks), a transcript the id of the task that wrote it, summary.json
\* the id of the writing task (negated for an error-shaped document).
FileNames ==
    {"original_raw", "original", "proc_temp", "temp_separation", "vocals", "guitar",
     "vocals_peaks", "guitar_peaks", "transcript_json", "transcript_txt", "summary"}

NoFile == 0
EmptyPeaks == -1

\* The artifacts of the glossary: durable outputs of a stage, and the raw audio.
ArtifactFiles ==
    {"original", "vocals", "guitar", "vocals_peaks", "guitar_peaks",
     "transcript_json", "transcript_txt", "summary"}

EmptyFolder == [f \in FileNames |-> NoFile]

NoStatus == [ex |-> FALSE, status |-> "", progress |-> 0, message |-> ""]
StatusRecord(s, p, m) == [ex |-> TRUE, status |-> s, progress |-> p, message |-> m]

\* metadata.json: status "" and title "" stand for an absent key.
NoMeta ==
    [ex |-> FALSE, status |-> "", title |-> "", tags |-> {}, transcript |-> 0,
     summary |-> 0]

Titles == {"", "T"}

\* The form of the n-th upload request: no title and no tags, or a title and
\* one tag of its own.
UploadForms(n) ==
    {[title |-> ti, tags |-> IF ti = "" THEN {} ELSE {n}] : ti \in Titles}

ErrNoOriginal == "Original audio file not found"
ErrNoVocals == "Vocals track not found. Run separation first."
ErrNoTranscript == "Transcript not found. Run transcription first."
ErrENOENT == "[Errno 2] No such file or directory"
ErrFfmpeg == "Command ffmpeg returned non-zero exit status 1."
ErrDemucs == "Command demucs returned non-zero exit status 1."
ErrRmtree == "[Errno 13] Permission denied: 'temp_separation'"
ErrWhisper == "whisper error"
ErrSummarize == "summarize error"

NoTask ==
    [kind |-> "none", lesson |-> 0, pc |-> "idle", err |-> "", failedAt |-> "",
     exit |-> "", ran |-> {}, written |-> <<>>, init |-> "", tags |-> {},
     tagsRead |-> {}, cleanup |-> "", segs |-> 0, inUpdate |-> FALSE,
     sum |-> 0, before |-> [status |-> "", progress |-> 0, message |-> ""]]

VARIABLES
    now,          \* the wall clock, in seconds
    dir,          \* dir[l]: the lesson folder exists
    fs,           \* fs[l][f]: content of file f of lesson l
    statusFile,   \* status.json of each lesson
    metaFile,     \* metadata.json of each lesson
    tasks,        \* the background tasks, in dispatch order
    nTasks,       \* number of background tasks dispatched
    upl,          \* lesson id of the upload request being handled, 0 if none
    uplPc,        \* position of that request in upload_lesson
    uplTitle,     \* title form field of that request
    uplTags,      \* parsed tags form field of that request
    tagsFile,     \* tags.json of the data directory: the global tag list
    upd,          \* the update_lesson request being handled
    nUpdates,     \* number of update_lesson requests
    rmtreeFails,  \* the file system can refuse to remove temp_separation
    nUploads,     \* number of upload requests accepted
    nDeletes,     \* number of delete requests
    audio,        \* _split_audio: the samples of the input file
    segment_time, \* _split_audio: seconds per chunk
    chunk_files,  \* the chunk files _split_audio returned, in its order
    merged,       \* the samples of the file _merge_audio_files wrote
    readable,     \* _split_audio: ffmpeg can open the input file
    split_exit,   \* how _split_audio ended: "" while it has not been called
    merge_exit,   \* how _merge_audio_files ended
    output_exists, \* the output file of _merge_audio_files exists
    points_per_second, \* generate_peaks: its argument
    decoded,      \* generate_peaks: samples ffmpeg decodes from the track
    unread,       \* generate_peaks: samples not yet read from the pipe
    peaks_len,    \* generate_peaks: len(peaks)
    peaks_pc,     \* generate_peaks: position in the function
    response,     \* the response of the last read request
    sep_pc,       \* separate_audio: position in the function
    sep_exit,     \* separate_audio: how it ended, "" while it runs
    demucs_calls, \* the files demucs was started on, in the order of the calls
    vocab_chunks, \* separate_audio: the vocal stems collected by the loop
    guitar_chunks, \* separate_audio: the accompaniment stems collected
    target_vocals, \* the samples of vocals.mp3 as separate_audio wrote it
    target_guitar, \* the samples of guitar.mp3 as separate_audio wrote it
    samples,      \* generate_peaks: the float32 samples ffmpeg decodes, in 1e-5
    peaks         \* generate_peaks: the list `peaks`

vars ==
    <<now, dir, fs, statusFile, metaFile, tasks, nTasks, upl, uplPc, uplTitle, uplTags,
      tagsFile, upd, nUpdates, rmtreeFails, nUploads, nDeletes, audio, segment_time,
      chunk_files, merged, readable, split_exit, merge_exit, output_exists,
      points_per_second, decoded, unread, peaks_len, peaks_pc, response, sep_pc,
      sep_exit, demucs_calls, vocab_chunks, guitar_chunks, target_vocals,
      target_guitar, samples, peaks>>

updVars == <<upd, nUpdates>>
splitVars ==
    <<audio, segment_time, chunk_files, merged, readable, split_exit, merge_exit,
      output_exists>>
peakVars == <<points_per_second, decoded, unread, peaks_len, peaks_pc>>
sepVars ==
    <<sep_pc, sep_exit, demucs_calls, vocab_chunks, guitar_chunks, target_vocals,
      target_guitar>>
winVars == <<samples, peaks>>
callVars == <<sepVars, winVars>>
env == <<rmtreeFails, callVars, splitVars, peakVars, response>>

\* ------------------------------------------------------------------- store
\* StoreService.get_lesson_metadata: metadata.json over the defaults, then the
\* transcript read from transcript.txt and the summary from summary.json.
\* A variant of SummaryText that hands out whatever summary.json holds.
SummaryTextRaw(doc) == doc

\* summary_data.get("summary", ""): the text of a summary document, the empty
\* string (0) for an error-shaped one, which has no "summary" key.
SummaryText(doc) == IF doc > 0 THEN doc ELSE 0

get_lesson_metadata(l) ==
    [status |-> metaFile[l].status,
     title |-> metaFile[l].title,
     tags |-> metaFile[l].tags,
     transcript |-> IF fs[l]["transcript_txt"] # NoFile
                    THEN fs[l]["transcript_txt"] ELSE metaFile[l].transcript,
     summary |-> IF fs[l]["summary"] # NoFile
                 THEN SummaryText(fs[l]["summary"]) ELSE metaFile[l].summary]

\* StoreService.save_lesson_metadata: creates the folder when it is missing and
\* replaces metadata.json by the given dictionary.
MetaRecord(md) ==
    [ex |-> TRUE, status |-> md.status, title |-> md.title, tags |-> md.tags,
     transcript |-> md.transcript, summary |-> md.summary]

StatusOnly(s) ==
    [status |-> s, title |-> "", tags |-> {}, transcript |-> 0, summary |-> 0]

\* The update_lesson request in flight: the lesson and the merged dictionary
\* it is about to save.
NoUpdate == [lesson |-> 0, current |-> StatusOnly("")]

\* get_lesson_status: the status of the metadata record when it has one, with
\* progress and message of status.json; else status.json; else unknown / 404.
get_lesson_status(l) ==
    IF dir[l] /\ metaFile[l].ex /\ metaFile[l].status # ""
    THEN [code |-> 200, status |-> metaFile[l].status,
          progress |-> IF statusFile[l].ex THEN statusFile[l].progress ELSE 0,
          message |-> IF statusFile[l].ex THEN statusFile[l].message
                      ELSE metaFile[l].status]
    ELSE IF dir[l] /\ statusFile[l].ex
    THEN [code |-> 200, status |-> statusFile[l].status,
          progress |-> statusFile[l].progress, message |-> statusFile[l].message]
    ELSE IF dir[l]
    THEN [code |-> 200, status |-> "unknown", progress |-> 0,
          message |-> "No status info"]
    ELSE [code |-> 404, status |-> "", progress |-> 0, message |-> "Lesson not found"]

\* The (status, progress, message) a poller is given.
StatusTriple(l) ==
    [status |-> get_lesson_status(l).status, progress |-> get_lesson_status(l).progress,
     message |-> get_lesson_status(l).message]

\* shutil.rmtree(lesson_dir)
Rmtree(l) ==
    /\ dir' = [dir EXCEPT ![l] = FALSE]
    /\ fs' = [fs EXCEPT ![l] = EmptyFolder]
    /\ statusFile' = [statusFile EXCEPT ![l] = NoStatus]
    /\ metaFile' = [metaFile EXCEPT ![l] = NoMeta]

\* -------------------------------------------------------------------- init
\* No call of _split_audio is under consideration.
NoSplit ==
    /\ audio = <<>>
    /\ segment_time = 0
    /\ chunk_files = <<>>
    /\ merged = <<>>
    /\ readable = TRUE
    /\ split_exit = ""
    /\ merge_exit = ""
    /\ output_exists = FALSE

\* No call of generate_peaks is under consideration.
NoPeaks ==
    /\ points_per_second = 0
    /\ decoded = 0
    /\ unread = 0
    /\ peaks_len = 0
    /\ peaks_pc = "idle"

NoResponse == [req |-> <<>>, code |-> 0, data |-> 0, generated |-> FALSE]

\* No call of separate_audio is followed chunk by chunk.
NoSeparation ==
    /\ sep_pc = "idle"
    /\ sep_exit = ""
    /\ demucs_calls = <<>>
    /\ vocab_chunks = <<>>
    /\ guitar_chunks = <<>>
    /\ target_vocals = <<>>
    /\ target_guitar = <<>>

\* No call of generate_peaks is followed sample by sample.
NoWindows ==
    /\ samples = <<>>
    /\ peaks = <<>>

NoCalls == NoSeparation /\ NoWindows

Init ==
    /\ now = 1
    /\ dir = [l \in Lessons |-> FALSE]
    /\ fs = [l \in Lessons |-> EmptyFolder]
    /\ statusFile = [l \in Lessons |-> NoStatus]
    /\ metaFile = [l \in Lessons |-> NoMeta]
    /\ tasks = [t \in TaskIds |-> NoTask]
    /\ nTasks = 0
    /\ upl = 0
    /\ uplPc = ""
    /\ uplTitle = ""
    /\ uplTags = {}
    /\ tagsFile = {}
    /\ upd = NoUpdate
    /\ nUpdates = 0
    /\ rmtreeFails = FALSE
    /\ NoSplit
    /\ NoPeaks
    /\ response = NoResponse
    /\ NoCalls
    /\ nUploads = 0
    /\ nDeletes = 0

Tick ==
    /\ now < MaxClock
    /\ now' = now + 1
    /\ UNCHANGED <<env, tagsFile, updVars, dir, fs, statusFile, metaFile, tasks, nTasks,
                   upl, uplPc, uplTitle, uplTags, nUploads, nDeletes>>

\* ------------------------------------------------------------------ upload
\* upload_lesson, lines 106-136: the id is the clock second, the folder is
\* created if missing, the uploaded bytes are written to original_raw.<ext>.
UploadReceive ==
    /\ upl = 0 /\ upd.lesson = 0
    /\ nUploads < MaxUploads
    /\ nTasks < MaxTasks
    /\ \E form \in UploadForms(nUploads + 1) :
         /\ upl' = now
         /\ uplPc' = "convert"
         /\ uplTitle' = form.title
         /\ uplTags' = form.tags
         /\ nUploads' = nUploads + 1
         /\ dir' = [dir EXCEPT ![now] = TRUE]
         /\ fs' = [fs EXCEPT ![now]["original_raw"] = nUploads + 1]
    /\ UNCHANGED <<now, env, tagsFile, updVars, statusFile, metaFile, tasks, nTasks,
                   nDeletes>>

\* upload_lesson, lines 138-164, conversion succeeded: original.mp3 is
\* written, the raw file removed and status.json set to queued.
UploadAccept ==
    /\ upl # 0 /\ uplPc = "convert"
    /\ fs' = [fs EXCEPT ![upl]["original"] = nUploads, ![upl]["original_raw"] = NoFile]
    /\ statusFile' = [statusFile EXCEPT ![upl] = StatusRecord("queued", 0, "In Queue")]
    /\ uplPc' = "save"
    /\ UNCHANGED <<now, env, tagsFile, updVars, dir, metaFile, tasks, nTasks, upl,
                   uplTitle, uplTags, nUploads, nDeletes>>

\* upload_lesson, lines 166-172: the metadata record is saved with status
\* queued (save_lesson_metadata creates the folder when it is missing and
\* adds the tags to tags.json), the pipeline is handed to the background
\* tasks and the request returns the id.
UploadDispatch ==
    /\ upl # 0 /\ uplPc = "save"
    /\ dir' = [dir EXCEPT ![upl] = TRUE]
    /\ metaFile' = [metaFile EXCEPT ![upl] =
                      MetaRecord([StatusOnly("queued") EXCEPT !.title = uplTitle,
                                                              !.tags = uplTags])]
    /\ tagsFile' = tagsFile \cup uplTags
    /\ nTasks' = nTasks + 1
    /\ tasks' = [tasks EXCEPT ![nTasks + 1] =
                   [NoTask EXCEPT !.kind = "pipeline", !.lesson = upl, !.pc = "start",
                                  !.init = uplTitle, !.tags = uplTags,
                                  !.before = [status |-> "queued", progress |-> 0,
                                              message |-> "In Queue"]]]
    /\ upl' = 0
    /\ uplPc' = ""
    /\ uplTitle' = ""
    /\ uplTags' = {}
    /\ UNCHANGED <<now, env, updVars, fs, statusFile, nUploads, nDeletes>>

\* upload_lesson, lines 143-152, conversion failed: the raw file and then the
\* whole lesson folder are removed and the request fails with 500.
UploadReject ==
    /\ upl # 0 /\ uplPc = "convert"
    /\ Rmtree(upl)
    /\ upl' = 0
    /\ uplPc' = ""
    /\ uplTitle' = ""
    /\ uplTags' = {}
    /\ UNCHANGED <<now, env, tagsFile, updVars, tasks, nTasks, nUploads, nDeletes>>

\* delete_lesson -> StoreService.delete_lesson: rmtree when the folder exists.
delete_lesson(l) ==
    /\ upl = 0 /\ upd.lesson = 0
    /\ nDeletes < MaxDeletes
    /\ dir[l]
    /\ Rmtree(l)
    /\ nDeletes' = nDeletes + 1
    /\ UNCHANGED <<now, env, tagsFile, updVars, tasks, nTasks, upl, uplPc, uplTitle, uplTags,
                   nUploads>>

\* ------------------------------------------------------- background tasks
Running(t) == tasks[t].kind # "none" /\ tasks[t].pc # "done"

Goto(t, pc) == tasks' = [tasks EXCEPT ![t].pc = pc]

\* An exception leaves the try block for the except clause of the task.
Raise(t, stage, e) ==
    tasks' = [tasks EXCEPT ![t].pc = "except", ![t].err = e, ![t].failedAt = stage]

\* The task as an exception leaves it: in the except clause of its try block.
Raised(t, stage, e) == [tasks[t] EXCEPT !.pc = "except", !.err = e, !.failedAt = stage]

\* update_status (both closures) is two writes.  First status.json is
\* rewritten (open() raises when the folder is gone); inUpdate then says the
\* task stands between the two writes.  Then save_lesson_metadata replaces
\* the metadata record by {"status": status}, creating the folder when it is
\* missing.  `after` is the task once the call has returned, `failing` the
\* task when open() raised.
UpdateStatus(t, s, p, m, after, failing) ==
    LET l == tasks[t].lesson IN
    IF ~tasks[t].inUpdate
    THEN IF dir[l]
         THEN /\ statusFile' = [statusFile EXCEPT ![l] = StatusRecord(s, p, m)]
              /\ tasks' = [tasks EXCEPT ![t].inUpdate = TRUE]
              /\ UNCHANGED <<dir, metaFile>>
         ELSE /\ tasks' = [tasks EXCEPT ![t] = failing]
              /\ UNCHANGED <<dir, statusFile, metaFile>>
    ELSE /\ dir' = [dir EXCEPT ![l] = TRUE]
         /\ metaFile' = [metaFile EXCEPT ![l] = MetaRecord(StatusOnly(s))]
         /\ tasks' = [tasks EXCEPT ![t] =
                        [after EXCEPT !.inUpdate = FALSE,
                                      !.written = Append(@, [status |-> s,
                                                             progress |-> p])]]
         /\ UNCHANGED statusFile

update_status(t, s, p, m, next) ==
    UpdateStatus(t, s, p, m, [tasks[t] EXCEPT !.pc = next],
                 Raised(t, "status", ErrENOENT))

\* AudioProcessor.prepare_wav: ffmpeg writes proc_temp.wav beside the input,
\* or fails (CalledProcessError).
prepare_wav(t, next) ==
    LET l == tasks[t].lesson IN
    \/ /\ dir[l] /\ fs[l]["original"] # NoFile
       /\ fs' = [fs EXCEPT ![l]["proc_temp"] = 1]
       /\ Goto(t, next)
    \/ /\ Raise(t, "normalize", ErrFfmpeg)
       /\ UNCHANGED fs

\* The finally clause around the separation: proc_temp.wav is unlinked.
UnlinkProcTemp(folder) == [folder EXCEPT !["proc_temp"] = NoFile]

\* AudioProcessor.separate_audio: a temp_separation left by an earlier call is
\* removed (lines 63-64, outside the try: an error there is raised), the
\* directory is created with its parents, the input is split, every chunk
\* separated, the vocal chunks merged into vocals.mp3 and then the guitar
\* chunks into guitar.mp3.  "ok" is a full run, "early" a failure before the
\* first merge, "late" a failure of the second merge.
SeparateOutcomes(folder) ==
    IF folder["proc_temp"] # NoFile THEN {"ok", "early", "late"} ELSE {"early"}

Separated(folder, t, outcome) ==
    IF outcome = "ok" THEN [folder EXCEPT !["vocals"] = t, !["guitar"] = t]
    ELSE IF outcome = "late" THEN [folder EXCEPT !["vocals"] = t]
    ELSE folder

\* The finally clause, lines 105-111: rmtree removes the directory, or raises
\* and the error is printed, leaving the directory of task t behind.  Whether
\* a removal can fail is a property of the file system the server runs on.
Cleanups == IF rmtreeFails THEN {"removed", "left"} ELSE {"removed"}

CleanedUp(folder, t, cleanup) ==
    [folder EXCEPT !["temp_separation"] = IF cleanup = "left" THEN t ELSE NoFile]

\* A variant of separate_audio whose finally clause lets the error of rmtree
\* escape: a separation that merged both tracks then raises.
separate_audio_strict(t, next, unlinkOnOk) ==
    LET l == tasks[t].lesson IN
    \E outcome \in SeparateOutcomes(fs[l]), cleanup \in Cleanups :
      /\ dir' = [dir EXCEPT ![l] = TRUE]
      /\ fs' = [fs EXCEPT ![l] =
                  UnlinkProcTemp(CleanedUp(Separated(@, t, outcome), t, cleanup))]
      /\ IF outcome = "ok" /\ cleanup = "removed"
         THEN tasks' = [tasks EXCEPT ![t].pc = next, ![t].cleanup = cleanup,
                          ![t].ran = @ \cup {"separate"}]
         ELSE tasks' = [tasks EXCEPT ![t].pc = "except", ![t].cleanup = cleanup,
                          ![t].err = IF outcome = "ok" THEN ErrRmtree ELSE ErrDemucs,
                          ![t].failedAt = "separate", ![t].ran = @ \cup {"separate"}]

\* unlinkOnOk: the caller's finally clause runs right after a successful
\* separation (the re-run) or only after the peaks (the pipeline).
separate_audio(t, next, unlinkOnOk) ==
    LET l == tasks[t].lesson IN
    \/ /\ fs[l]["temp_separation"] # NoFile
       /\ fs' = [fs EXCEPT ![l] = UnlinkProcTemp(@)]
       /\ tasks' = [tasks EXCEPT ![t].pc = "except", ![t].err = ErrRmtree,
                      ![t].failedAt = "separate", ![t].ran = @ \cup {"separate"}]
       /\ UNCHANGED dir
    \/ \E outcome \in SeparateOutcomes(fs[l]), cleanup \in Cleanups :
         /\ dir' = [dir EXCEPT ![l] = TRUE]
         /\ IF outcome = "ok"
            THEN /\ fs' = [fs EXCEPT ![l] =
                             IF unlinkOnOk
                             THEN UnlinkProcTemp(CleanedUp(Separated(@, t, outcome), t, cleanup))
                             ELSE CleanedUp(Separated(@, t, outcome), t, cleanup)]
                 /\ tasks' = [tasks EXCEPT ![t].pc = next, ![t].cleanup = cleanup,
                                ![t].ran = @ \cup {"separate"}]
            ELSE /\ fs' = [fs EXCEPT ![l] =
                             UnlinkProcTemp(CleanedUp(Separated(@, t, outcome), t, cleanup))]
                 /\ tasks' = [tasks EXCEPT ![t].pc = "except", ![t].err = ErrDemucs,
                                ![t].cleanup = cleanup, ![t].failedAt = "separate",
                                ![t].ran = @ \cup {"separate"}]

\* AudioProcessor.generate_peaks: the series of the decoded track; a track
\* that is missing or does not decode gives an empty stream and an empty
\* series.  Nothing is raised: when the file cannot be written the error is
\* printed.
PeakOutcomes(track) == IF track # NoFile THEN {track, EmptyPeaks} ELSE {EmptyPeaks}

\* AudioProcessor.transcribe on vocals.mp3: the segments, or an exception.
transcribe(t, next) ==
    LET l == tasks[t].lesson IN
    \/ /\ dir[l] /\ fs[l]["vocals"] # NoFile
       /\ tasks' = [tasks EXCEPT ![t].pc = next, ![t].segs = t,
                      ![t].ran = @ \cup {"transcribe"}]
    \/ /\ tasks' = [tasks EXCEPT ![t].pc = "except", ![t].err = ErrWhisper,
                      ![t].failedAt = "transcribe", ![t].ran = @ \cup {"transcribe"}]

\* AudioProcessor.summarize: a summary document, an error-shaped document when
\* the LLM call fails (caught inside), or an exception from the code before
\* the try block.
summarize(t, next) ==
    \/ \E doc \in {t, -t} :
         tasks' = [tasks EXCEPT ![t].pc = next, ![t].sum = doc,
                     ![t].ran = @ \cup {"summarize"}]
    \/ tasks' = [tasks EXCEPT ![t].pc = "except", ![t].err = ErrSummarize,
                   ![t].failedAt = "summarize", ![t].ran = @ \cup {"summarize"}]

\* ---------------------------------------------- process_lesson_background
IsPipeline(t, pc) == tasks[t].kind = "pipeline" /\ tasks[t].pc = pc

PipelineStart(t) ==
    /\ IsPipeline(t, "start")
    /\ update_status(t, "processing", 5, "Separating Audio (Demucs)... This takes time.",
                     "wav")
    /\ UNCHANGED <<now, env, tagsFile, updVars, fs, nTasks, upl, uplPc, uplTitle, uplTags,
                   nUploads, nDeletes>>

PipelinePrepareWav(t) ==
    /\ IsPipeline(t, "wav")
    /\ prepare_wav(t, "separate")
    /\ UNCHANGED <<now, env, tagsFile, updVars, dir, statusFile, metaFile, nTasks, upl, uplPc,
                   uplTitle, uplTags, nUploads, nDeletes>>

\* A variant of PipelineSeparate that goes on to the transcription, leaving
\* the peaks for later.
PipelineSeparateThenTranscribe(t) ==
    /\ IsPipeline(t, "separate")
    /\ separate_audio(t, "status_transcribe", TRUE)
    /\ UNCHANGED <<now, env, tagsFile, updVars, statusFile, metaFile, nTasks, upl, uplPc,
                   uplTitle, uplTags, nUploads, nDeletes>>

PipelineSeparate(t) ==
    /\ IsPipeline(t, "separate")
    /\ separate_audio(t, "status_peaks", FALSE)
    /\ UNCHANGED <<now, env, tagsFile, updVars, statusFile, metaFile, nTasks, upl, uplPc,
                   uplTitle, uplTags, nUploads, nDeletes>>

PipelineStatusPeaks(t) ==
    /\ IsPipeline(t, "status_peaks")
    /\ update_status(t, "processing", 15, "Generating Waveforms...", "peaks")
    /\ UNCHANGED <<now, env, tagsFile, updVars, fs, nTasks, upl, uplPc, uplTitle, uplTags,
                   nUploads, nDeletes>>

\* Lines 51-56: both peak series, then the finally clause.
PipelinePeaks(t) ==
    /\ IsPipeline(t, "peaks")
    /\ LET l == tasks[t].lesson IN
       IF dir[l]
       THEN \E pv \in PeakOutcomes(fs[l]["vocals"]), pg \in PeakOutcomes(fs[l]["guitar"]) :
              fs' = [fs EXCEPT ![l] = UnlinkProcTemp(
                       [@ EXCEPT !["vocals_peaks"] = pv, !["guitar_peaks"] = pg])]
       ELSE UNCHANGED fs
    /\ tasks' = [tasks EXCEPT ![t].pc = "status_transcribe", ![t].ran = @ \cup {"peaks"}]
    /\ UNCHANGED <<now, env, tagsFile, updVars, dir, statusFile, metaFile, nTasks, upl, uplPc,
                   uplTitle, uplTags, nUploads, nDeletes>>

\* A variant of PipelineStatusTranscribe that reports 0.1 instead of 0.5.
PipelineStatusTranscribeLow(t) ==
    /\ IsPipeline(t, "status_transcribe")
    /\ update_status(t, "processing", 10, "Transcribing Vocals (Whisper)...", "transcribe")
    /\ UNCHANGED <<now, env, tagsFile, updVars, fs, nTasks, upl, uplPc, uplTitle, uplTags,
                   nUploads, nDeletes>>

PipelineStatusTranscribe(t) ==
    /\ IsPipeline(t, "status_transcribe")
    /\ update_status(t, "processing", 50, "Transcribing Vocals (Whisper)...", "transcribe")
    /\ UNCHANGED <<now, env, tagsFile, updVars, fs, nTasks, upl, uplPc, uplTitle, uplTags,
                   nUploads, nDeletes>>

PipelineTranscribe(t) ==
    /\ IsPipeline(t, "transcribe")
    /\ transcribe(t, "status_summarize")
    /\ UNCHANGED <<now, env, tagsFile, updVars, dir, fs, statusFile, metaFile, nTasks,
                   upl, uplPc, uplTitle, uplTags, nUploads, nDeletes>>

PipelineStatusSummarize(t) ==
    /\ IsPipeline(t, "status_summarize")
    /\ update_status(t, "processing", 80, "Summarizing (LLM)...", "summarize")
    /\ UNCHANGED <<now, env, tagsFile, updVars, fs, nTasks, upl, uplPc, uplTitle, uplTags,
                   nUploads, nDeletes>>

PipelineSummarize(t) ==
    /\ IsPipeline(t, "summarize")
    /\ summarize(t, "status_final")
    /\ UNCHANGED <<now, env, tagsFile, updVars, dir, fs, statusFile, metaFile, nTasks,
                   upl, uplPc, uplTitle, uplTags, nUploads, nDeletes>>

PipelineStatusFinal(t) ==
    /\ IsPipeline(t, "status_final")
    /\ update_status(t, "processing", 95, "Finalizing...", "save_results")
    /\ UNCHANGED <<now, env, tagsFile, updVars, fs, nTasks, upl, uplPc, uplTitle, uplTags,
                   nUploads, nDeletes>>

\* AudioProcessor.save_results: transcript.json, transcript.txt, summary.json.
save_results(folder, segs, doc) ==
    [folder EXCEPT !["transcript_json"] = segs, !["transcript_txt"] = segs,
                   !["summary"] = doc]

PipelineSaveResults(t) ==
    /\ IsPipeline(t, "save_results")
    /\ LET l == tasks[t].lesson IN
       IF dir[l]
       THEN /\ fs' = [fs EXCEPT ![l] = save_results(@, tasks[t].segs, tasks[t].sum)]
            /\ Goto(t, "save_metadata")
       ELSE /\ Raise(t, "save", ErrENOENT)
            /\ UNCHANGED fs
    /\ UNCHANGED <<now, env, tagsFile, updVars, dir, statusFile, metaFile, nTasks, upl, uplPc,
                   uplTitle, uplTags, nUploads, nDeletes>>

\* Lines 72-85: the upload's metadata with defaults filled in, saved without a
\* status key.  save_lesson_metadata then calls add_global_tags, which loads
\* tags.json here and writes it back in the next step.
PipelineSaveMetadata(t) ==
    /\ IsPipeline(t, "save_metadata")
    /\ LET l == tasks[t].lesson
           title == IF tasks[t].init = "" THEN "Lesson" ELSE tasks[t].init
       IN /\ dir' = [dir EXCEPT ![l] = TRUE]
          /\ metaFile' = [metaFile EXCEPT ![l] =
                            MetaRecord([StatusOnly("") EXCEPT !.title = title,
                                                             !.tags = tasks[t].tags])]
    /\ tasks' = [tasks EXCEPT ![t].pc = "tags", ![t].tagsRead = tagsFile]
    /\ UNCHANGED <<now, env, tagsFile, updVars, fs, statusFile, nTasks, upl, uplPc, uplTitle,
                   uplTags, nUploads, nDeletes>>

\* StoreService.add_global_tags, lines 232-234: the loaded set, updated with
\* the tags, replaces tags.json.
add_global_tags(t, next) ==
    /\ tagsFile' = tasks[t].tagsRead \cup tasks[t].tags
    /\ Goto(t, next)

PipelineAddGlobalTags(t) ==
    /\ IsPipeline(t, "tags")
    /\ add_global_tags(t, "status_completed")
    /\ UNCHANGED <<now, env, updVars, dir, fs, statusFile, metaFile, nTasks, upl, uplPc,
                   uplTitle, uplTags, nUploads, nDeletes>>

PipelineCompleted(t) ==
    /\ IsPipeline(t, "status_completed")
    /\ UpdateStatus(t, "completed", 100, "Ready",
                    [tasks[t] EXCEPT !.pc = "done", !.exit = "returned"],
                    Raised(t, "status", ErrENOENT))
    /\ UNCHANGED <<now, env, tagsFile, updVars, fs, nTasks, upl, uplPc, uplTitle, uplTags,
                   nUploads, nDeletes>>

\* A variant of Failed that logs the exception and leaves the status alone.
FailedSilently(t, message) ==
    /\ tasks' = [tasks EXCEPT ![t].pc = "done", ![t].exit = "returned"]
    /\ UNCHANGED <<dir, statusFile, metaFile>>

\* The except clause of either task: update_status("failed", 0.0, message).
\* When the folder is gone the update itself raises and the task ends with
\* that exception.
Failed(t, message) ==
    UpdateStatus(t, "failed", 0, message,
                 [tasks[t] EXCEPT !.pc = "done", !.exit = "returned"],
                 [tasks[t] EXCEPT !.pc = "done", !.exit = "raised"])

PipelineMessage(e) == e

PipelineExcept(t) ==
    /\ IsPipeline(t, "except")
    /\ Failed(t, PipelineMessage(tasks[t].err))
    /\ UNCHANGED <<now, env, tagsFile, updVars, fs, nTasks, upl, uplPc, uplTitle, uplTags,
                   nUploads, nDeletes>>

process_lesson_background(t) ==
    \/ PipelineStart(t)
    \/ PipelinePrepareWav(t)
    \/ PipelineSeparate(t)
    \/ PipelineStatusPeaks(t)
    \/ PipelinePeaks(t)
    \/ PipelineStatusTranscribe(t)
    \/ PipelineTranscribe(t)
    \/ PipelineStatusSummarize(t)
    \/ PipelineSummarize(t)
    \/ PipelineStatusFinal(t)
    \/ PipelineSaveResults(t)
    \/ PipelineSaveMetadata(t)
    \/ PipelineAddGlobalTags(t)
    \/ PipelineCompleted(t)
    \/ PipelineExcept(t)

\* -------------------------------------------------- reprocess_lesson_step
Stages == {"separate", "transcribe", "summarize"}

IsRerun(t, kind, pc) == tasks[t].kind = kind /\ tasks[t].pc = pc

RerunMessage(kind) ==
    IF kind = "separate" THEN "Re-separating Audio..."
    ELSE IF kind = "transcribe" THEN "Re-transcribing..."
    ELSE "Re-summarizing..."

RerunDoneMessage(kind) ==
    IF kind = "separate" THEN "Separation Complete"
    ELSE IF kind = "transcribe" THEN "Transcription Complete"
    ELSE "Summarization Complete"

FirstStep(kind) == IF kind = "separate" THEN "wav" ELSE kind

\* Lines 364-370, 380, 402: every task type first looks for original.*, then
\* writes processing / 0.1.
RerunStart(t) ==
    /\ tasks[t].kind \in Stages /\ tasks[t].pc = "start"
    /\ LET l == tasks[t].lesson IN
       IF tasks[t].inUpdate \/ (dir[l] /\ fs[l]["original"] # NoFile)
       THEN update_status(t, "processing", 10, RerunMessage(tasks[t].kind),
                          FirstStep(tasks[t].kind))
       ELSE /\ Raise(t, "precondition", ErrNoOriginal)
            /\ UNCHANGED <<dir, statusFile, metaFile>>
    /\ UNCHANGED <<now, env, tagsFile, updVars, fs, nTasks, upl, uplPc, uplTitle, uplTags,
                   nUploads, nDeletes>>

RerunPrepareWav(t) ==
    /\ IsRerun(t, "separate", "wav")
    /\ prepare_wav(t, "separate")
    /\ UNCHANGED <<now, env, tagsFile, updVars, dir, statusFile, metaFile, nTasks, upl, uplPc,
                   uplTitle, uplTags, nUploads, nDeletes>>

RerunSeparate(t) ==
    /\ IsRerun(t, "separate", "separate")
    /\ separate_audio(t, "status_completed", TRUE)
    /\ UNCHANGED <<now, env, tagsFile, updVars, statusFile, metaFile, nTasks, upl, uplPc,
                   uplTitle, uplTags, nUploads, nDeletes>>

\* A variant of RerunTranscribe without the check for vocals.mp3.
RerunTranscribeUnchecked(t) ==
    /\ IsRerun(t, "transcribe", "transcribe")
    /\ transcribe(t, "save")
    /\ UNCHANGED <<now, env, tagsFile, updVars, dir, fs, statusFile, metaFile, nTasks,
                   upl, uplPc, uplTitle, uplTags, nUploads, nDeletes>>

\* Lines 381-385: the vocal track must exist, then it is transcribed.
RerunTranscribe(t) ==
    /\ IsRerun(t, "transcribe", "transcribe")
    /\ LET l == tasks[t].lesson IN
       IF dir[l] /\ fs[l]["vocals"] # NoFile
       THEN transcribe(t, "save")
       ELSE Raise(t, "precondition", ErrNoVocals)
    /\ UNCHANGED <<now, env, tagsFile, updVars, dir, fs, statusFile, metaFile, nTasks,
                   upl, uplPc, uplTitle, uplTags, nUploads, nDeletes>>

\* A variant of RerunSaveTranscript that saves through save_results, which
\* also rewrites summary.json from the (empty) summary of the task.
RerunSaveTranscriptAll(t) ==
    /\ IsRerun(t, "transcribe", "save")
    /\ LET l == tasks[t].lesson IN
       IF dir[l]
       THEN /\ fs' = [fs EXCEPT ![l] = save_results(@, tasks[t].segs, tasks[t].sum)]
            /\ metaFile' = [metaFile EXCEPT ![l] =
                              MetaRecord([get_lesson_metadata(l) EXCEPT
                                            !.transcript = tasks[t].segs])]
            /\ tasks' = [tasks EXCEPT ![t].pc = "tags",
                           ![t].tags = get_lesson_metadata(l).tags,
                           ![t].tagsRead = tagsFile]
       ELSE /\ Raise(t, "save", ErrENOENT)
            /\ UNCHANGED <<fs, metaFile>>
    /\ UNCHANGED <<now, env, tagsFile, updVars, dir, statusFile, nTasks, upl, uplPc, uplTitle,
                   uplTags, nUploads, nDeletes>>

\* Lines 388-397: transcript.json and transcript.txt, then the metadata record
\* read back, given the transcript and saved.
RerunSaveTranscript(t) ==
    /\ IsRerun(t, "transcribe", "save")
    /\ LET l == tasks[t].lesson IN
       IF dir[l]
       THEN /\ fs' = [fs EXCEPT ![l]["transcript_json"] = tasks[t].segs,
                                ![l]["transcript_txt"] = tasks[t].segs]
            /\ metaFile' = [metaFile EXCEPT ![l] =
                              MetaRecord([get_lesson_metadata(l) EXCEPT
                                            !.transcript = tasks[t].segs])]
            /\ tasks' = [tasks EXCEPT ![t].pc = "tags",
                           ![t].tags = get_lesson_metadata(l).tags,
                           ![t].tagsRead = tagsFile]
       ELSE /\ Raise(t, "save", ErrENOENT)
            /\ UNCHANGED <<fs, metaFile>>
    /\ UNCHANGED <<now, env, tagsFile, updVars, dir, statusFile, nTasks, upl, uplPc, uplTitle,
                   uplTags, nUploads, nDeletes>>

\* Lines 403-410: transcript.json must exist, then it is summarized.
RerunSummarize(t) ==
    /\ IsRerun(t, "summarize", "summarize")
    /\ LET l == tasks[t].lesson IN
       IF dir[l] /\ fs[l]["transcript_json"] # NoFile
       THEN summarize(t, "save")
       ELSE Raise(t, "precondition", ErrNoTranscript)
    /\ UNCHANGED <<now, env, tagsFile, updVars, dir, fs, statusFile, metaFile, nTasks,
                   upl, uplPc, uplTitle, uplTags, nUploads, nDeletes>>

\* Lines 413-420: summary.json, then the metadata record read back, updated
\* with the summary document and saved.
RerunSaveSummary(t) ==
    /\ IsRerun(t, "summarize", "save")
    /\ LET l == tasks[t].lesson IN
       IF dir[l]
       THEN /\ fs' = [fs EXCEPT ![l]["summary"] = tasks[t].sum]
            /\ metaFile' = [metaFile EXCEPT ![l] =
                              MetaRecord([get_lesson_metadata(l) EXCEPT
                                            !.summary = SummaryText(tasks[t].sum)])]
            /\ tasks' = [tasks EXCEPT ![t].pc = "tags",
                           ![t].tags = get_lesson_metadata(l).tags,
                           ![t].tagsRead = tagsFile]
       ELSE /\ Raise(t, "save", ErrENOENT)
            /\ UNCHANGED <<fs, metaFile>>
    /\ UNCHANGED <<now, env, tagsFile, updVars, dir, statusFile, nTasks, upl, uplPc, uplTitle,
                   uplTags, nUploads, nDeletes>>

\* save_lesson_metadata of lines 397 and 420 ends in add_global_tags.
RerunAddGlobalTags(t) ==
    /\ tasks[t].kind \in Stages /\ tasks[t].pc = "tags"
    /\ add_global_tags(t, "status_completed")
    /\ UNCHANGED <<now, env, updVars, dir, fs, statusFile, metaFile, nTasks, upl, uplPc,
                   uplTitle, uplTags, nUploads, nDeletes>>

RerunCompleted(t) ==
    /\ tasks[t].kind \in Stages /\ tasks[t].pc = "status_completed"
    /\ UpdateStatus(t, "completed", 100, RerunDoneMessage(tasks[t].kind),
                    [tasks[t] EXCEPT !.pc = "done", !.exit = "returned"],
                    Raised(t, "status", ErrENOENT))
    /\ UNCHANGED <<now, env, tagsFile, updVars, fs, nTasks, upl, uplPc, uplTitle, uplTags,
                   nUploads, nDeletes>>

RerunFailureMessage(e) == "Error: " \o e

RerunExcept(t) ==
    /\ tasks[t].kind \in Stages /\ tasks[t].pc = "except"
    /\ Failed(t, RerunFailureMessage(tasks[t].err))
    /\ UNCHANGED <<now, env, tagsFile, updVars, fs, nTasks, upl, uplPc, uplTitle, uplTags,
                   nUploads, nDeletes>>

reprocess_lesson_step(t) ==
    \/ RerunStart(t)
    \/ RerunPrepareWav(t)
    \/ RerunSeparate(t)
    \/ RerunTranscribe(t)
    \/ RerunSaveTranscript(t)
    \/ RerunSummarize(t)
    \/ RerunSaveSummary(t)
    \/ RerunAddGlobalTags(t)
    \/ RerunCompleted(t)
    \/ RerunExcept(t)

\* process_lesson: 404 unless the lesson folder exists; else the re-run is
\* handed to the background tasks and the request returns.
process_lesson(l, kind) ==
    /\ upl = 0 /\ upd.lesson = 0
    /\ nTasks < MaxTasks
    /\ dir[l]
    /\ nTasks' = nTasks + 1
    /\ tasks' = [tasks EXCEPT ![nTasks + 1] =
                   [NoTask EXCEPT !.kind = kind, !.lesson = l, !.pc = "start",
                                  !.before = StatusTriple(l)]]
    /\ UNCHANGED <<now, env, tagsFile, updVars, dir, fs, statusFile, metaFile, upl, uplPc,
                   uplTitle, uplTags, nUploads, nDeletes>>

\* ------------------------------------------------------------ update_lesson
MaxUpdates == 1

\* Request bodies of PUT /{lesson_id}: any dictionary is accepted.
UpdateBodies ==
    {[field |-> "title", value |-> "U"], [field |-> "status", value |-> "completed"]}

\* current.update(updates)
Merged(current, body) ==
    IF body.field = "title" THEN [current EXCEPT !.title = body.value]
    ELSE [current EXCEPT !.status = body.value]

\* The keys of the dictionary get_lesson_metadata returns: the defaults of
\* store.py line 71, the keys of metadata.json, and the keys read from
\* transcript.txt and summary.json.
DefaultKeys == {"tags", "memo", "created_at"}

MetaKeys(l) ==
    DefaultKeys
    \cup (IF metaFile[l].status # "" THEN {"status"} ELSE {})
    \cup (IF metaFile[l].title # "" THEN {"title"} ELSE {})
    \cup (IF fs[l]["transcript_txt"] # NoFile \/ metaFile[l].transcript # 0
          THEN {"transcript"} ELSE {})
    \cup (IF fs[l]["summary"] # NoFile \/ metaFile[l].summary # 0
          THEN {"summary", "key_points", "chords"} ELSE {})

LessonAnswer(kind, l, code) ==
    [req |-> <<kind, l, "">>, code |-> code, data |-> 0, generated |-> FALSE]

\* get_lesson, lines 241-250: 404 when the dictionary is empty (`not meta`),
\* else the dictionary with the id.
get_lesson(l) ==
    /\ upl = 0 /\ upd.lesson = 0
    /\ response' = LessonAnswer("lesson", l, IF MetaKeys(l) = {} THEN 404 ELSE 200)
    /\ UNCHANGED <<now, rmtreeFails, callVars, splitVars, peakVars, tagsFile, updVars, dir,
                   fs, statusFile, metaFile, tasks, nTasks, upl, uplPc, uplTitle, uplTags,
                   nUploads, nDeletes>>

\* update_lesson, lines 255-260: the metadata is read; 404 when the
\* dictionary is empty and the folder does not exist; else the dictionary is
\* merged with the body.
update_lesson(l, body) ==
    /\ upl = 0 /\ upd.lesson = 0
    /\ nUpdates < MaxUpdates
    /\ IF MetaKeys(l) = {} /\ ~dir[l]
       THEN /\ response' = LessonAnswer("update", l, 404)
            /\ UNCHANGED upd
       ELSE /\ upd' = [lesson |-> l, current |-> Merged(get_lesson_metadata(l), body)]
            /\ UNCHANGED response
    /\ nUpdates' = nUpdates + 1
    /\ UNCHANGED <<now, rmtreeFails, callVars, splitVars, peakVars, tagsFile, dir, fs,
                   statusFile, metaFile, tasks, nTasks, upl, uplPc, uplTitle, uplTags,
                   nUploads, nDeletes>>

\* update_lesson, lines 261-262: save_lesson_metadata creates the folder when
\* it is missing, replaces metadata.json and adds the tags to tags.json; the
\* request is answered with the dictionary.
UpdateSave ==
    /\ upd.lesson # 0
    /\ dir' = [dir EXCEPT ![upd.lesson] = TRUE]
    /\ metaFile' = [metaFile EXCEPT ![upd.lesson] = MetaRecord(upd.current)]
    /\ tagsFile' = tagsFile \cup upd.current.tags
    /\ response' = LessonAnswer("update", upd.lesson, 200)
    /\ upd' = NoUpdate
    /\ UNCHANGED <<now, rmtreeFails, callVars, splitVars, peakVars, fs, statusFile, tasks,
                   nTasks, upl, uplPc, uplTitle, uplTags, nUpdates, nUploads, nDeletes>>

\* ---------------------------------------------------------- get_audio_peaks
Tracks == {"vocals", "guitar"}
PeaksFile(track) == IF track = "vocals" THEN "vocals_peaks" ELSE "guitar_peaks"

\* Lines 293-314: the response for a valid track type.  The series is
\* generated first when <track>.json is missing and <track>.mp3 exists; then
\* the stored series is returned, or 404 when there is none.
get_audio_peaks(l, track) ==
    /\ upl = 0 /\ upd.lesson = 0
    /\ dir[l]
    /\ fs[l][PeaksFile(track)] = NoFile
    /\ fs[l][track] # NoFile
    /\ \E p \in PeakOutcomes(fs[l][track]) :
         fs' = [fs EXCEPT ![l][PeaksFile(track)] = p]
    /\ UNCHANGED <<now, env, tagsFile, updVars, dir, statusFile, metaFile, tasks,
                   nTasks, upl, uplPc, uplTitle, uplTags, nUploads, nDeletes>>

\* What get_audio_peaks answers when the series is already stored.
StoredPeaksResponse(l, track) ==
    [code |-> IF fs[l][PeaksFile(track)] = NoFile THEN 404 ELSE 200,
     data |-> fs[l][PeaksFile(track)]]

Next ==
    \/ \E t \in TaskIds : reprocess_lesson_step(t)
    \/ \E l \in Lessons, kind \in Stages : process_lesson(l, kind)
    \/ \E l \in Lessons, track \in Tracks : get_audio_peaks(l, track)
    \/ \E t \in TaskIds : process_lesson_background(t)
    \/ Tick
    \/ UploadReceive
    \/ UploadAccept
    \/ UploadDispatch
    \/ UploadReject
    \/ \E l \in Lessons : delete_lesson(l)

Spec == Init /\ [][Next]_vars

\* ------------------------------------------- a lesson folder found on disk
\* The data directory outlives the server: a lesson folder left by an earlier
\* run (or by the legacy application) holds any subset of the artifact files,
\* and a status that is absent, completed or failed.  Re-runs are then
\* requested for it.
PersistedVersion == MaxTasks + 1

PersistedFolders ==
    {[f \in FileNames |-> IF f \in present THEN PersistedVersion ELSE NoFile] :
       present \in SUBSET ArtifactFiles}

PersistedStatuses ==
    {NoStatus, StatusRecord("completed", 100, "Ready"),
     StatusRecord("failed", 0, ErrWhisper)}

InitDisk ==
    /\ now = 1
    /\ dir = [l \in Lessons |-> l = 1]
    /\ \E folder \in PersistedFolders :
         fs = [l \in Lessons |-> IF l = 1 THEN folder ELSE EmptyFolder]
    /\ \E st \in PersistedStatuses :
         /\ statusFile = [l \in Lessons |-> IF l = 1 THEN st ELSE NoStatus]
         /\ metaFile = [l \in Lessons |->
                          IF l = 1 /\ st.ex THEN MetaRecord(StatusOnly(st.status))
                          ELSE NoMeta]
    /\ tasks = [t \in TaskIds |-> NoTask]
    /\ nTasks = 0
    /\ upl = 0
    /\ uplPc = ""
    /\ uplTitle = ""
    /\ uplTags = {}
    /\ tagsFile = {}
    /\ upd = NoUpdate
    /\ nUpdates = 0
    /\ rmtreeFails \in BOOLEAN
    /\ NoSplit
    /\ NoPeaks
    /\ response = NoResponse
    /\ NoCalls
    /\ nUploads = 0
    /\ nDeletes = 0

NextDisk ==
    \/ \E t \in TaskIds : reprocess_lesson_step(t)
    \/ \E l \in Lessons, kind \in Stages : process_lesson(l, kind)

SpecDisk == InitDisk /\ [][NextDisk]_vars

\* ------------------------------------------------- metadata update requests
\* Uploads and their pipelines, with update_lesson requests arriving at any
\* time.
NextMeta ==
    \/ \E l \in Lessons, body \in UpdateBodies : update_lesson(l, body)
    \/ UpdateSave
    \/ UploadReceive
    \/ UploadAccept
    \/ UploadDispatch
    \/ \E t \in TaskIds : process_lesson_background(t)

SpecMeta == Init /\ [][NextMeta]_vars

\* ------------------------------------------------ _split_audio and merging
\* An audio file is its sequence of samples, one per second of audio here;
\* the input of length n is the ramp 1..n, so that a lost, repeated or moved
\* sample shows.  The empty sequence is a file with a header and no samples.
MaxSeconds == 1001
SmallSeconds == 20
MaxSegmentTime == 2
ExampleSeconds == 720
CHUNK_DURATION == 600

Audios ==
    {[i \in 1..n |-> i] :
       n \in {m \in 1..MaxSeconds : m <= SmallSeconds \/ m >= MaxSeconds - 1}
              \cup {ExampleSeconds}}
    \cup {<<>>}

SegmentTimes == (1..MaxSegmentTime) \cup {CHUNK_DURATION}

\* "chunk_%03d.wav": the decimal digits of the index, padded with zeros to
\* three, then the dot of the suffix, a character that sorts below the digits.
Dot == -1

RECURSIVE Digits(_)
Digits(k) == IF k < 10 THEN <<k>> ELSE Digits(k \div 10) \o <<k % 10>>

ChunkName(k) ==
    (IF k < 10 THEN <<0, 0>> ELSE IF k < 100 THEN <<0>> ELSE <<>>) \o Digits(k) \o <<Dot>>

\* Order of two paths under sorted(): character by character.
RECURSIVE PathLess(_, _)
PathLess(a, b) ==
    IF a = <<>> THEN b # <<>>
    ELSE IF b = <<>> THEN FALSE
    ELSE IF Head(a) # Head(b) THEN Head(a) < Head(b)
    ELSE PathLess(Tail(a), Tail(b))

\* The files the segment muxer writes: chunk k holds the samples of seconds
\* k * segment_time up to (k + 1) * segment_time, the last one what is left.
Segments(a, seconds) ==
    [k \in 1..((Len(a) + seconds - 1) \div seconds) |->
       [name |-> ChunkName(k - 1), ex |-> TRUE,
        data |-> SubSeq(a, (k - 1) * seconds + 1,
                        IF k * seconds < Len(a) THEN k * seconds ELSE Len(a))]]

\* _split_audio, line 130: sorted(list(output_dir.glob("chunk_*.wav")))
split_audio(a, seconds) ==
    SortSeq(Segments(a, seconds), LAMBDA x, y : PathLess(x.name, y.name))

\* _merge_audio_files: the concat demuxer writes the samples of the listed
\* files one file after the other, in the order of the list.
RECURSIVE ConcatRange(_, _, _)
ConcatRange(files, i, j) ==
    IF i > j THEN <<>>
    ELSE IF i = j THEN files[i].data
    ELSE ConcatRange(files, i, (i + j) \div 2) \o ConcatRange(files, (i + j) \div 2 + 1, j)

merge_audio_files(files) == ConcatRange(files, 1, Len(files))

storeVars ==
    <<now, dir, fs, statusFile, metaFile, tasks, nTasks, upl, uplPc, uplTitle, uplTags,
      tagsFile, upd, nUpdates, rmtreeFails, nUploads, nDeletes>>

InitSplit ==
    /\ now = 1
    /\ dir = [l \in Lessons |-> FALSE]
    /\ fs = [l \in Lessons |-> EmptyFolder]
    /\ statusFile = [l \in Lessons |-> NoStatus]
    /\ metaFile = [l \in Lessons |-> NoMeta]
    /\ tasks = [t \in TaskIds |-> NoTask]
    /\ nTasks = 0
    /\ upl = 0
    /\ uplPc = ""
    /\ uplTitle = ""
    /\ uplTags = {}
    /\ tagsFile = {}
    /\ upd = NoUpdate
    /\ nUpdates = 0
    /\ rmtreeFails = FALSE
    /\ nUploads = 0
    /\ nDeletes = 0
    /\ audio \in Audios
    /\ segment_time \in SegmentTimes
    /\ readable \in BOOLEAN
    /\ chunk_files = <<>>
    /\ merged = <<>>
    /\ split_exit = ""
    /\ merge_exit = ""
    /\ output_exists = FALSE
    /\ NoPeaks
    /\ response = NoResponse
    /\ NoCalls

\* What ffmpeg's segment muxer does with an input that has no samples is not
\* decided by _split_audio: it exits non-zero, or exits 0 having written no
\* chunk file, or exits 0 having written one chunk without samples.
ZeroLengthOutcomes ==
    {[exit |-> "CalledProcessError", files |-> <<>>],
     [exit |-> "returned", files |-> <<>>],
     [exit |-> "returned",
      files |-> <<[name |-> ChunkName(0), ex |-> TRUE, data |-> <<>>]>>]}

\* _split_audio, lines 127-130: subprocess.run(check=True) raises when ffmpeg
\* exits non-zero, as it does on an input it cannot open; otherwise the sorted
\* glob is returned, whatever it holds.
SplitStep ==
    /\ split_exit = ""
    /\ \/ /\ ~readable
          /\ split_exit' = "CalledProcessError"
          /\ chunk_files' = <<>>
       \/ /\ readable /\ audio # <<>>
          /\ split_exit' = "returned"
          /\ chunk_files' = split_audio(audio, segment_time)
       \/ /\ readable /\ audio = <<>>
          /\ \E out \in ZeroLengthOutcomes :
               /\ split_exit' = out.exit
               /\ chunk_files' = out.files
    /\ UNCHANGED <<storeVars, callVars, peakVars, response, audio, segment_time, merged, readable, merge_exit,
                   output_exists>>

\* Index of the first listed file that does not exist, 0 when all exist.
RECURSIVE FirstMissingIn(_, _, _)
FirstMissingIn(files, i, j) ==
    IF i > j THEN 0
    ELSE IF i = j THEN (IF files[i].ex THEN 0 ELSE i)
    ELSE LET left == FirstMissingIn(files, i, (i + j) \div 2) IN
         IF left # 0 THEN left ELSE FirstMissingIn(files, (i + j) \div 2 + 1, j)

FirstMissing(files) == FirstMissingIn(files, 1, Len(files))

\* A file of the list is removed before the merge: a missing input.
MaxMissing == 3

UnlinkChunk(i) ==
    /\ split_exit = "returned" /\ merge_exit = ""
    /\ i \in 1..Len(chunk_files) /\ i <= MaxMissing
    /\ FirstMissing(chunk_files) = 0
    /\ chunk_files' = [chunk_files EXCEPT ![i].ex = FALSE]
    /\ UNCHANGED <<storeVars, callVars, peakVars, response, audio, segment_time, merged, readable, split_exit,
                   merge_exit, output_exists>>

\* _merge_audio_files.  An empty list is refused before anything is written
\* (lines 134-135).  Otherwise merge_list.txt is written from the list as it
\* is (138-141) and ffmpeg runs (143-152): it opens the first listed file
\* before it creates the output, and each later file when the one before it
\* is exhausted; when that fails the output holds what was copied so far, and
\* ffmpeg's exit status says whether subprocess.run raises.  The output file
\* is not removed on failure.
MergeStep ==
    /\ split_exit = "returned" /\ merge_exit = ""
    /\ IF chunk_files = <<>>
       THEN /\ merge_exit' = "ValueError"
            /\ UNCHANGED <<merged, output_exists>>
       ELSE LET m == FirstMissing(chunk_files) IN
            IF m = 0
            THEN /\ merge_exit' = "returned"
                 /\ merged' = merge_audio_files(chunk_files)
                 /\ output_exists' = TRUE
            ELSE IF m = 1
            THEN /\ merge_exit' = "CalledProcessError"
                 /\ UNCHANGED <<merged, output_exists>>
            ELSE /\ merge_exit' \in {"CalledProcessError", "returned"}
                 /\ merged' = ConcatRange(chunk_files, 1, m - 1)
                 /\ output_exists' = TRUE
    /\ UNCHANGED <<storeVars, callVars, peakVars, response, audio, segment_time, chunk_files,
                   readable, split_exit>>

NextSplit ==
    \/ SplitStep
    \/ \E i \in 1..MaxMissing : UnlinkChunk(i)
    \/ MergeStep

SpecSplit == InitSplit /\ [][NextSplit]_vars

\* ----------------------------------------------------------- generate_peaks
\* The function on a stream of `decoded` samples: ffmpeg writes float32
\* samples at 44100 Hz to a pipe, the loop reads bytes_per_chunk bytes at a
\* time and appends one point per read.
SampleRate == 44100
BytesPerSample == 4
DefaultPointsPerSecond == 100
MaxPointsPerSecond == 1000
MaxDecodedSeconds == 2

PointsPerSecondValues ==
    {1, 8, DefaultPointsPerSecond, MaxPointsPerSecond, SampleRate + 1}

DecodedValues ==
    {0, 1, SampleRate \div DefaultPointsPerSecond,
     SampleRate \div DefaultPointsPerSecond + 1, SampleRate, SampleRate + 1,
     MaxDecodedSeconds * SampleRate}

\* Line 437: int(44100 / points_per_second)
chunk_size == SampleRate \div points_per_second
bytes_per_chunk == chunk_size * BytesPerSample

InitPeaks ==
    /\ now = 1
    /\ dir = [l \in Lessons |-> FALSE]
    /\ fs = [l \in Lessons |-> EmptyFolder]
    /\ statusFile = [l \in Lessons |-> NoStatus]
    /\ metaFile = [l \in Lessons |-> NoMeta]
    /\ tasks = [t \in TaskIds |-> NoTask]
    /\ nTasks = 0
    /\ upl = 0
    /\ uplPc = ""
    /\ uplTitle = ""
    /\ uplTags = {}
    /\ tagsFile = {}
    /\ upd = NoUpdate
    /\ nUpdates = 0
    /\ rmtreeFails = FALSE
    /\ nUploads = 0
    /\ nDeletes = 0
    /\ audio = <<>>
    /\ segment_time = 0
    /\ chunk_files = <<>>
    /\ merged = <<>>
    /\ readable = TRUE
    /\ split_exit = ""
    /\ merge_exit = ""
    /\ output_exists = FALSE
    /\ response = NoResponse
    /\ NoCalls
    /\ points_per_second \in PointsPerSecondValues
    /\ decoded \in DecodedValues
    /\ unread = decoded
    /\ peaks_len = 0
    /\ peaks_pc = "read"

\* Lines 440-454, one iteration: read() returns bytes_per_chunk bytes, or
\* what is left at the end of the stream; an empty read ends the loop.
ReadChunk ==
    /\ peaks_pc = "read"
    /\ LET left == unread * BytesPerSample
           raw == IF bytes_per_chunk < left THEN bytes_per_chunk ELSE left
           count == raw \div BytesPerSample
       IN IF raw = 0 \/ count = 0
          THEN /\ peaks_pc' = "save"
               /\ UNCHANGED <<unread, peaks_len>>
          ELSE /\ unread' = unread - count
               /\ peaks_len' = peaks_len + 1
               /\ UNCHANGED peaks_pc
    /\ UNCHANGED <<storeVars, callVars, splitVars, response, points_per_second, decoded>>

\* Lines 456-460: the series is written to the output file.
SavePeaks ==
    /\ peaks_pc = "save"
    /\ peaks_pc' = "done"
    /\ UNCHANGED <<storeVars, callVars, splitVars, response, points_per_second, decoded, unread,
                   peaks_len>>

generate_peaks ==
    \/ ReadChunk
    \/ SavePeaks

SpecPeaks == InitPeaks /\ [][generate_peaks]_vars

\* ------------------------------------------- generate_peaks, sample values
\* The same loop with the values of the samples: a sample is a float32 kept
\* in units of 1e-5, full scale (1.0) being FullScale.  ffmpeg writes floats
\* without clipping them, so a track whose decoded waveform overshoots full
\* scale delivers samples beyond it.
FullScale == 100000
MaxStream == 5

SampleValues == {0, 12346, 0 - FullScale, FullScale + 4000}

Streams == UNION {[1..n -> SampleValues] : n \in 0..MaxStream}

\* Rates whose window is 1, 2 or 3 samples, one that does not divide the
\* sample rate and one above it.
WindowRates ==
    {SampleRate, SampleRate \div 2, SampleRate \div 3, 30000, SampleRate + 1}

Abs(v) == IF v < 0 THEN 0 - v ELSE v

\* np.max(np.abs(y)) over the samples with the indexes in `idx`
MaxAbs(idx) ==
    CHOOSE m \in {Abs(samples[i]) : i \in idx} :
      \A i \in idx : Abs(samples[i]) <= m

\* round(peak, 4), on a value in units of 1e-5
Round4(v) == ((v + 5) \div 10) * 10

InitWindows ==
    /\ now = 1
    /\ dir = [l \in Lessons |-> FALSE]
    /\ fs = [l \in Lessons |-> EmptyFolder]
    /\ statusFile = [l \in Lessons |-> NoStatus]
    /\ metaFile = [l \in Lessons |-> NoMeta]
    /\ tasks = [t \in TaskIds |-> NoTask]
    /\ nTasks = 0
    /\ upl = 0
    /\ uplPc = ""
    /\ uplTitle = ""
    /\ uplTags = {}
    /\ tagsFile = {}
    /\ upd = NoUpdate
    /\ nUpdates = 0
    /\ rmtreeFails = FALSE
    /\ nUploads = 0
    /\ nDeletes = 0
    /\ NoSplit
    /\ response = NoResponse
    /\ NoSeparation
    /\ points_per_second \in WindowRates
    /\ samples \in Streams
    /\ decoded = Len(samples)
    /\ unread = decoded
    /\ peaks = <<>>
    /\ peaks_len = 0
    /\ peaks_pc = "read"

\* Lines 440-454, one iteration: read() returns bytes_per_chunk bytes, or
\* what is left at the end of the stream; an empty read ends the loop,
\* otherwise the rounded maximum of the absolute values read is appended.
ReadWindow ==
    /\ peaks_pc = "read"
    /\ LET left == unread * BytesPerSample
           raw == IF bytes_per_chunk < left THEN bytes_per_chunk ELSE left
           count == raw \div BytesPerSample
           first == decoded - unread + 1
       IN IF raw = 0 \/ count = 0
          THEN /\ peaks_pc' = "save"
               /\ UNCHANGED <<unread, peaks_len, peaks>>
          ELSE /\ unread' = unread - count
               /\ peaks' = Append(peaks, Round4(MaxAbs(first..(first + count - 1))))
               /\ peaks_len' = peaks_len + 1
               /\ UNCHANGED peaks_pc
    /\ UNCHANGED <<storeVars, sepVars, splitVars, response, points_per_second, decoded,
                   samples>>

\* Lines 456-460: the series is written to the output file.
SaveSeries ==
    /\ peaks_pc = "save"
    /\ peaks_pc' = "done"
    /\ UNCHANGED <<storeVars, sepVars, splitVars, response, points_per_second, decoded,
                   unread, peaks_len, samples, peaks>>

NextWindows ==
    \/ ReadWindow
    \/ SaveSeries

SpecWindows == InitWindows /\ [][NextWindows]_vars

\* ------------------------------------------------------------ read requests
\* GET requests on a data directory found on disk, with their responses
\* kept: lesson 1 is a persisted folder, the other ids are unknown.  `req`
\* names the request answered, `generated` whether get_audio_peaks called
\* generate_peaks.
TrackTypes == Tracks \cup {"drums"}

PeaksAnswer(l, track_type, code, data, generated) ==
    [req |-> <<"peaks", l, track_type>>, code |-> code, data |-> data,
     generated |-> generated]

\* A variant of get_audio_peaks_read that returns the generated series
\* without writing it to <track>.json.
get_audio_peaks_unstored(l, track_type) ==
    /\ IF track_type \notin Tracks
       THEN /\ response' = PeaksAnswer(l, track_type, 400, 0, FALSE)
            /\ UNCHANGED fs
       ELSE IF fs[l][PeaksFile(track_type)] # NoFile
       THEN /\ response' = PeaksAnswer(l, track_type, 200,
                                       fs[l][PeaksFile(track_type)], FALSE)
            /\ UNCHANGED fs
       ELSE IF fs[l][track_type] # NoFile
       THEN /\ \E p \in PeakOutcomes(fs[l][track_type]) :
                 response' = PeaksAnswer(l, track_type, 200, p, TRUE)
            /\ UNCHANGED fs
       ELSE /\ response' = PeaksAnswer(l, track_type, 404, 0, FALSE)
            /\ UNCHANGED fs
    /\ UNCHANGED <<now, rmtreeFails, callVars, splitVars, peakVars, tagsFile, updVars, dir,
                   statusFile, metaFile, tasks, nTasks, upl, uplPc, uplTitle, uplTags,
                   nUploads, nDeletes>>

\* get_audio_peaks, lines 290-314, with its response: 400 for another track
\* type; the stored series when <track>.json exists; else the series
\* generate_peaks writes when <track>.mp3 exists; else 404.
get_audio_peaks_read(l, track_type) ==
    /\ IF track_type \notin Tracks
       THEN /\ response' = PeaksAnswer(l, track_type, 400, 0, FALSE)
            /\ UNCHANGED fs
       ELSE IF fs[l][PeaksFile(track_type)] # NoFile
       THEN /\ response' = PeaksAnswer(l, track_type, 200,
                                       fs[l][PeaksFile(track_type)], FALSE)
            /\ UNCHANGED fs
       ELSE IF fs[l][track_type] # NoFile
       THEN \E p \in PeakOutcomes(fs[l][track_type]) :
              /\ fs' = [fs EXCEPT ![l][PeaksFile(track_type)] = p]
              /\ response' = PeaksAnswer(l, track_type, 200, p, TRUE)
       ELSE /\ response' = PeaksAnswer(l, track_type, 404, 0, FALSE)
            /\ UNCHANGED fs
    /\ UNCHANGED <<now, rmtreeFails, callVars, splitVars, peakVars, tagsFile, updVars, dir,
                   statusFile, metaFile, tasks, nTasks, upl, uplPc, uplTitle, uplTags,
                   nUploads, nDeletes>>

\* get_transcript, lines 325-337: the transcript of the metadata when it has
\* one, else the empty string; the answer is 200 in both cases.  `data` is
\* the transcript, 0 for the empty string.
get_transcript(l) ==
    /\ response' = [req |-> <<"transcript", l, "">>, code |-> 200,
                    data |-> get_lesson_metadata(l).transcript, generated |-> FALSE]
    /\ UNCHANGED <<now, rmtreeFails, callVars, splitVars, peakVars, tagsFile, updVars, dir, fs,
                   statusFile, metaFile, tasks, nTasks, upl, uplPc, uplTitle, uplTags,
                   nUploads, nDeletes>>

InitRead ==
    /\ now = 1
    /\ dir = [l \in Lessons |-> l = 1]
    /\ \E folder \in PersistedFolders :
         fs = [l \in Lessons |-> IF l = 1 THEN folder ELSE EmptyFolder]
    /\ \E st \in PersistedStatuses :
         /\ statusFile = [l \in Lessons |-> IF l = 1 THEN st ELSE NoStatus]
         /\ metaFile = [l \in Lessons |->
                          IF l = 1 /\ st.ex THEN MetaRecord(StatusOnly(st.status))
                          ELSE NoMeta]
    /\ tasks = [t \in TaskIds |-> NoTask]
    /\ nTasks = 0
    /\ upl = 0
    /\ uplPc = ""
    /\ uplTitle = ""
    /\ uplTags = {}
    /\ tagsFile = {}
    /\ upd = NoUpdate
    /\ nUpdates = 0
    /\ rmtreeFails = FALSE
    /\ NoSplit
    /\ NoPeaks
    /\ response = NoResponse
    /\ NoCalls
    /\ nUploads = 0
    /\ nDeletes = 0

NextRead ==
    \/ \E l \in Lessons, track_type \in TrackTypes : get_audio_peaks_read(l, track_type)
    \/ \E l \in Lessons : get_transcript(l)

SpecRead == InitRead /\ [][NextRead]_vars

\* Metadata requests on the same data directory: GET and PUT /{lesson_id}.
NextLookup ==
    \/ \E l \in Lessons : get_lesson(l)
    \/ \E l \in Lessons, body \in UpdateBodies : update_lesson(l, body)
    \/ UpdateSave

SpecLookup == InitRead /\ [][NextLookup]_vars

\* ---------------------------------------------------------------------------
\* POST /transcribe (routers/transcribe.py, services/transcription.py).

MaxTime == 2

Times == 0..MaxTime

\* What the audio libraries do with an existing guitar.mp3 for a segment of
\* positive length: librosa.load raises; the segment is below the noise gate;
\* predict runs and the notes are exported; predict or the export raises.
SegmentOutcomes == {"load_error", "silence", "notes", "predict_error"}

\* The except clause of transcribe_segment, lines 74-76: the notation is a
\* rest followed by the message of the exception as a comment.
ErrorComment(e) ==
    CASE e = "FileNotFoundError" -> "z4 |] % Error: Guitar track not found for lesson"
      [] e = "load_error"        -> "z4 |] % Error: load"
      [] e = "predict_error"     -> "z4 |] % Error: predict"

\* transcribe_segment, lines 33-76.  `raised` is the exception that leaves the
\* function, "" for a return; `abc` the returned notation; `predict` whether
\* the pitch model was invoked.  Every exception raised inside the try block,
\* the FileNotFoundError of line 39 included, is caught at line 74.
transcribe_segment(l, start, end, outcome) ==
    LET raisedInTry ==
            IF ~(dir[l] /\ fs[l]["guitar"] # NoFile) THEN "FileNotFoundError"
            ELSE IF end - start <= 0 THEN ""
            ELSE IF outcome \in {"load_error", "predict_error"} THEN outcome
            ELSE ""
        invoked ==
            /\ dir[l] /\ fs[l]["guitar"] # NoFile
            /\ end - start > 0
            /\ outcome \in {"notes", "predict_error"}
    IN  IF raisedInTry # ""
        THEN [raised |-> "", abc |-> ErrorComment(raisedInTry), predict |-> invoked]
        ELSE IF end - start <= 0
        THEN [raised |-> "", abc |-> "z", predict |-> FALSE]
        ELSE IF outcome = "silence"
        THEN [raised |-> "", abc |-> "z4 |]", predict |-> FALSE]
        ELSE [raised |-> "", abc |-> "notes", predict |-> TRUE]

\* transcribe_audio, lines 14-28: 200 with the notation when the service
\* returns, 404 when it raises FileNotFoundError, 500 for another exception.
transcribe_audio(l, start, end) ==
    /\ \E outcome \in SegmentOutcomes :
         LET r == transcribe_segment(l, start, end, outcome) IN
         response' = [req |-> <<"abc", l, start, end>>,
                      code |-> IF r.raised = "" THEN 200
                               ELSE IF r.raised = "FileNotFoundError" THEN 404
                               ELSE 500,
                      data |-> [abc |-> IF r.raised = "" THEN r.abc ELSE "",
                                predict |-> r.predict],
                      generated |-> FALSE]
    /\ UNCHANGED <<now, rmtreeFails, callVars, splitVars, peakVars, tagsFile, updVars, dir, fs,
                   statusFile, metaFile, tasks, nTasks, upl, uplPc, uplTitle, uplTags,
                   nUploads, nDeletes>>

NextTranscribe ==
    \E l \in Lessons, start \in Times, end \in Times : transcribe_audio(l, start, end)

SpecTranscribe == InitRead /\ [][NextTranscribe]_vars

\* ------------------------------------------------- separate_audio, by chunk
\* One call of separate_audio on a recording whose samples are `audio`,
\* followed step by step: the split into chunks of CHUNK_DURATION seconds,
\* the loop that runs demucs on each chunk, the two merges and the cleanup.
MaxChunks == 3

Recordings ==
    {[i \in 1..n |-> i] :
       n \in {0, 1} \cup {k * CHUNK_DURATION + d : k \in 1..(MaxChunks - 1), d \in {0, 1}}}

\* The stem demucs writes for a file: as long as the file and named after it
\* (file_path.stem).  The accompaniment is told from the vocals by its sign.
Stem(file, stem) ==
    [name |-> file.name, ex |-> TRUE, stem |-> stem,
     data |-> IF stem = "vocals" THEN file.data
              ELSE [k \in 1..Len(file.data) |-> 0 - file.data[k]]]

\* _run_demucs_on_single_file, lines 186-211: demucs exits non-zero, or its
\* output lacks a stem, or vocals.mp3 is found with guitar.mp3 or, failing
\* that, other.mp3.
DemucsOutcomes == {"guitar", "other", "RuntimeError", "CalledProcessError"}

InitSeparate ==
    /\ now = 1
    /\ dir = [l \in Lessons |-> FALSE]
    /\ fs = [l \in Lessons |-> EmptyFolder]
    /\ statusFile = [l \in Lessons |-> NoStatus]
    /\ metaFile = [l \in Lessons |-> NoMeta]
    /\ tasks = [t \in TaskIds |-> NoTask]
    /\ nTasks = 0
    /\ upl = 0
    /\ uplPc = ""
    /\ uplTitle = ""
    /\ uplTags = {}
    /\ tagsFile = {}
    /\ upd = NoUpdate
    /\ nUpdates = 0
    /\ rmtreeFails = FALSE
    /\ nUploads = 0
    /\ nDeletes = 0
    /\ audio \in Recordings
    /\ segment_time = CHUNK_DURATION
    /\ readable \in BOOLEAN
    /\ chunk_files = <<>>
    /\ merged = <<>>
    /\ split_exit = ""
    /\ merge_exit = ""
    /\ output_exists = FALSE
    /\ NoPeaks
    /\ response = NoResponse
    /\ sep_pc = "split"
    /\ sep_exit = ""
    /\ demucs_calls = <<>>
    /\ vocab_chunks = <<>>
    /\ guitar_chunks = <<>>
    /\ target_vocals = <<>>
    /\ target_guitar = <<>>
    /\ NoWindows

\* An exception inside the try block of separate_audio: it is re-raised
\* after the finally clause (lines 102-111).
SeparateRaise(e) ==
    /\ sep_pc' = "finally"
    /\ sep_exit' = e

\* Lines 68-74: chunk_files = self._split_audio(file_path, temp_dir, 600).
SeparateSplit ==
    /\ sep_pc = "split"
    /\ \/ /\ ~readable
          /\ split_exit' = "CalledProcessError"
          /\ chunk_files' = <<>>
       \/ /\ readable /\ audio # <<>>
          /\ split_exit' = "returned"
          /\ chunk_files' = split_audio(audio, segment_time)
       \/ /\ readable /\ audio = <<>>
          /\ \E out \in ZeroLengthOutcomes :
               /\ split_exit' = out.exit
               /\ chunk_files' = out.files
    /\ IF split_exit' = "returned"
       THEN sep_pc' = "loop" /\ UNCHANGED sep_exit
       ELSE SeparateRaise(split_exit')
    /\ UNCHANGED <<storeVars, winVars, peakVars, response, audio, segment_time, merged, readable,
                   merge_exit, output_exists, demucs_calls, vocab_chunks, guitar_chunks,
                   target_vocals, target_guitar>>

\* A variant of DemucsStart that hands demucs the input file of
\* separate_audio instead of the chunk.
DemucsStartWhole ==
    /\ sep_pc = "loop"
    /\ Len(vocab_chunks) < Len(chunk_files)
    /\ demucs_calls' = Append(demucs_calls, [name |-> <<>>, ex |-> TRUE, data |-> audio])
    /\ sep_pc' = "demucs"
    /\ UNCHANGED <<storeVars, winVars, peakVars, response, splitVars, sep_exit, vocab_chunks,
                   guitar_chunks, target_vocals, target_guitar>>

\* Lines 77-85, an iteration begins: `for i, chunk_file in enumerate(...)`
\* takes the next element of chunk_files (i is the number of stems appended
\* so far), out_<i> is created and demucs is started on chunk_file by
\* subprocess.run, which does not return before demucs has exited.
DemucsStart ==
    /\ sep_pc = "loop"
    /\ Len(vocab_chunks) < Len(chunk_files)
    /\ demucs_calls' = Append(demucs_calls, chunk_files[Len(vocab_chunks) + 1])
    /\ sep_pc' = "demucs"
    /\ UNCHANGED <<storeVars, winVars, peakVars, response, splitVars, sep_exit, vocab_chunks,
                   guitar_chunks, target_vocals, target_guitar>>

\* Lines 85-88 with 186-211: demucs has exited; the stems of the file it was
\* given are appended to the two lists, or the exception leaves the loop.
DemucsReturn ==
    /\ sep_pc = "demucs"
    /\ \E outcome \in DemucsOutcomes :
         IF outcome \in {"guitar", "other"}
         THEN /\ vocab_chunks' = Append(vocab_chunks, Stem(demucs_calls[Len(demucs_calls)], "vocals"))
              /\ guitar_chunks' = Append(guitar_chunks, Stem(demucs_calls[Len(demucs_calls)], outcome))
              /\ sep_pc' = "loop"
              /\ UNCHANGED sep_exit
         ELSE /\ SeparateRaise(outcome)
              /\ UNCHANGED <<vocab_chunks, guitar_chunks>>
    /\ UNCHANGED <<storeVars, winVars, peakVars, response, splitVars, demucs_calls, target_vocals,
                   target_guitar>>

\* Lines 91-95, the loop is over: the vocal stems are merged into vocals.mp3
\* in the order of the list; an empty list is refused, ffmpeg can fail.
MergeVocals ==
    /\ sep_pc = "loop"
    /\ Len(vocab_chunks) = Len(chunk_files)
    /\ \/ /\ vocab_chunks = <<>>
          /\ SeparateRaise("ValueError")
          /\ UNCHANGED target_vocals
       \/ /\ vocab_chunks # <<>>
          /\ target_vocals' = merge_audio_files(vocab_chunks)
          /\ sep_pc' = "merge_guitar"
          /\ UNCHANGED sep_exit
       \/ /\ vocab_chunks # <<>>
          /\ SeparateRaise("CalledProcessError")
          /\ UNCHANGED target_vocals
    /\ UNCHANGED <<storeVars, winVars, peakVars, response, splitVars, demucs_calls, vocab_chunks,
                   guitar_chunks, target_guitar>>

\* Lines 97-100: the accompaniment stems are merged into guitar.mp3.
MergeGuitar ==
    /\ sep_pc = "merge_guitar"
    /\ \/ /\ target_guitar' = merge_audio_files(guitar_chunks)
          /\ sep_pc' = "finally"
          /\ sep_exit' = "returned"
       \/ /\ SeparateRaise("CalledProcessError")
          /\ UNCHANGED target_guitar
    /\ UNCHANGED <<storeVars, winVars, peakVars, response, splitVars, demucs_calls, vocab_chunks,
                   guitar_chunks, target_vocals>>

\* Lines 105-111: temp_separation is removed with the chunks and the stems.
SeparateFinally ==
    /\ sep_pc = "finally"
    /\ sep_pc' = "done"
    /\ UNCHANGED <<storeVars, winVars, peakVars, response, splitVars, sep_exit, demucs_calls,
                   vocab_chunks, guitar_chunks, target_vocals, target_guitar>>

NextSeparate ==
    \/ SeparateSplit
    \/ DemucsStart
    \/ DemucsReturn
    \/ MergeVocals
    \/ MergeGuitar
    \/ SeparateFinally

SpecSeparate == InitSeparate /\ [][NextSeparate]_vars

\* ================================================================== claims
Last(w) == w[Len(w)]
Returns(t) == tasks[t].pc # "done" /\ tasks'[t].pc = "done" /\ tasks'[t].exit = "returned"
Completed(t) ==
    /\ tasks[t].exit = "returned"
    /\ Last(tasks[t].written).status = "completed"

\* C1: when a background task (the pipeline or a single-stage re-run)
\* returns, whichever stage succeeded or raised during it, the status a poller
\* is given for its lesson is completed or failed, never processing or queued.
C1_StatusFinalOnReturn ==
    [][\A t \in TaskIds :
         Returns(t) =>
           get_lesson_status(tasks[t].lesson)'.status \in {"completed", "failed"}]_vars

C1_Witness ==
    \E t \in TaskIds :
      /\ tasks[t].exit = "returned"
      /\ tasks[t].failedAt \in Stages
      /\ get_lesson_status(tasks[t].lesson).status = "failed"

\* C2: the progress values one pipeline run writes while it succeeds start at
\* a small positive value with status processing, strictly increase from one
\* status update to the next, and a completed run has made four
\* processing-to-processing steps and ends at 1.0 with status completed.
SuccessfulPart(w) == SelectSeq(w, LAMBDA e : e.status # "failed")

C2_ProgressIncreases ==
    \A t \in TaskIds :
      tasks[t].kind = "pipeline" =>
        LET w == SuccessfulPart(tasks[t].written) IN
        /\ \A i \in 1..(Len(w) - 1) :
             /\ w[i].status = "processing"
             /\ w[i].progress < w[i + 1].progress
        /\ w # <<>> => w[1].progress \in 1..10
        /\ \A i \in 1..Len(w) :
             w[i].status = "completed" => i = Len(w) /\ i = 6 /\ w[i].progress = 100
        /\ tasks[t].exit = "returned" /\ tasks[t].failedAt = "" =>
             w # <<>> /\ Last(w).status = "completed"

C2_Witness ==
    \E t \in TaskIds : tasks[t].kind = "pipeline" /\ Completed(t)

\* C3: in every reachable state a lesson whose status is completed has the
\* transcript artifact and the summary artifact.
C3_CompletedHasTranscriptAndSummary ==
    \A l \in Lessons :
      get_lesson_status(l).status = "completed" =>
        /\ fs[l]["transcript_json"] # NoFile
        /\ fs[l]["transcript_txt"] # NoFile
        /\ fs[l]["summary"] # NoFile

\* C4: in every reachable state a lesson whose status is queued has only the
\* raw audio: no track, peak series, transcript or summary.
C4_QueuedHasOnlyRawAudio ==
    \A l \in Lessons :
      get_lesson_status(l).status = "queued" =>
        \A f \in ArtifactFiles \ {"original"} : fs[l][f] = NoFile

\* C5: when a stage of the pipeline raises, the run ends with status failed,
\* progress 0.0 and the stringified error as message, no later stage has run,
\* and the artifacts of the stages that succeeded before it are present: the
\* two tracks after a failed transcription, the two tracks and the transcript
\* after a failed summarization.
StagesThrough(stage) ==
    IF stage = "separate" THEN {"separate"}
    ELSE IF stage = "transcribe" THEN {"separate", "peaks", "transcribe"}
    ELSE {"separate", "peaks", "transcribe", "summarize"}

RetainedAfter(stage) ==
    IF stage = "separate" THEN {}
    ELSE IF stage = "transcribe" THEN {"vocals", "guitar"}
    ELSE {"vocals", "guitar", "transcript_json", "transcript_txt"}

C5_FailureKeepsEarlierArtifacts ==
    [][\A t \in TaskIds :
         (tasks[t].kind = "pipeline" /\ tasks[t].failedAt \in Stages /\ Returns(t)) =>
           /\ StatusTriple(tasks[t].lesson)' =
                [status |-> "failed", progress |-> 0, message |-> tasks[t].err]
           /\ tasks'[t].ran = StagesThrough(tasks[t].failedAt)
           /\ \A f \in RetainedAfter(tasks[t].failedAt) :
                fs'[tasks[t].lesson][f] # NoFile]_vars

\* C6: a summarize re-run that finds no transcript.json ends with the lesson's
\* status record (status, progress, message) as it was before the request.
C6_MissingTranscriptLeavesStatus ==
    [][\A t \in TaskIds :
         (tasks[t].kind = "summarize" /\ tasks[t].err = ErrNoTranscript
          /\ tasks[t].pc # "done" /\ tasks'[t].pc = "done") =>
           StatusTriple(tasks[t].lesson)' = tasks[t].before]_vars

Upstream(kind) ==
    IF kind = "separate" THEN "original"
    ELSE IF kind = "transcribe" THEN "vocals"
    ELSE "transcript_json"

C8_OwnUpstreamOnly ==
    [][\A t \in TaskIds :
         (tasks[t].kind \in Stages /\ tasks[t].pc # "except"
          /\ tasks'[t].pc = "except" /\ tasks'[t].failedAt = "precondition") =>
           fs[tasks[t].lesson][Upstream(tasks[t].kind)] = NoFile]_vars

\* C9: every step of a re-run of stage X leaves all artifact files but X's own
\* unchanged (separate: the two tracks; transcribe: transcript.txt and
\* transcript.json; summarize: summary.json), in every lesson folder, leaves
\* the cached metadata field of the other stage as it reads, and invokes no
\* executor but X's.
Owned(kind) ==
    IF kind = "separate" THEN {"vocals", "guitar"}
    ELSE IF kind = "transcribe" THEN {"transcript_json", "transcript_txt"}
    ELSE {"summary"}

C9_RerunFrame ==
    [][\A t \in TaskIds :
         (tasks[t].kind \in Stages /\ tasks'[t] # tasks[t]) =>
           LET l == tasks[t].lesson
               kind == tasks[t].kind
           IN /\ \A k \in Lessons, f \in ArtifactFiles :
                   (k # l \/ f \notin Owned(kind)) => fs'[k][f] = fs[k][f]
              /\ tasks'[t].ran \subseteq {kind}
              /\ kind # "transcribe" =>
                   get_lesson_metadata(l)'.transcript = get_lesson_metadata(l).transcript
              /\ kind # "summarize" =>
                   get_lesson_metadata(l)'.summary = get_lesson_metadata(l).summary]_vars

C9_Witness ==
    \E t \in TaskIds :
      /\ tasks[t].kind = "transcribe"
      /\ Completed(t)
      /\ fs[tasks[t].lesson]["transcript_txt"] = t
      /\ \A f \in ArtifactFiles : fs[tasks[t].lesson][f] # NoFile

\* C10: once a separate re-run has completed and its tracks are the ones the
\* lesson has, a stored peak series that a peak read returns is the series of
\* those tracks, not of the tracks the re-run replaced.
C10_PeaksFollowReseparation ==
    \A t \in TaskIds :
      (tasks[t].kind = "separate" /\ Completed(t)) =>
        \A track \in Tracks :
          LET r == StoredPeaksResponse(tasks[t].lesson, track) IN
          (fs[tasks[t].lesson][track] = t /\ r.code = 200 /\ r.data # EmptyPeaks) =>
            r.data = t

\* C11: a successful re-run writes processing with progress 0.1 and then
\* completed with progress 1.0, and a failed re-run leaves status failed,
\* progress 0.0 and the message a failed pipeline run gives for the same
\* error, the error's string representation.
C11_RerunStatusAsPipeline ==
    [][\A t \in TaskIds :
         (tasks[t].kind \in Stages /\ Returns(t)) =>
           IF tasks[t].err = ""
           THEN tasks'[t].written = << [status |-> "processing", progress |-> 10],
                                       [status |-> "completed", progress |-> 100] >>
           ELSE StatusTriple(tasks[t].lesson)' =
                  [status |-> "failed", progress |-> 0,
                   message |-> PipelineMessage(tasks[t].err)]]_vars

\* C13: two accepted uploads have two lesson ids: the pipeline tasks they
\* dispatch never work on the same lesson folder.
C13_DistinctIds ==
    \A t1, t2 \in TaskIds :
      (t1 # t2 /\ tasks[t1].kind = "pipeline" /\ tasks[t2].kind = "pipeline") =>
        tasks[t1].lesson # tasks[t2].lesson

\* C16: when delete_lesson returns the lesson is gone (the status query
\* answers not-found, no file is left), and a deleted lesson's folder comes back
\* only through a new upload with that id, whatever background task is in
\* flight.
C16_DeletedStaysAbsent ==
    [][\A l \in Lessons :
         /\ (nDeletes' # nDeletes /\ dir[l] /\ ~dir'[l]) =>
              /\ get_lesson_status(l)'.code = 404
              /\ fs'[l] = EmptyFolder
         /\ (~dir[l] /\ dir'[l]) => upl' = l]_vars

\* C17: a re-run executes its stage only while no pipeline task of the same
\* lesson is queued or running.
C17_NoRerunDuringPipeline ==
    [][\A t \in TaskIds :
         (tasks[t].kind \in Stages /\ tasks'[t].ran # tasks[t].ran) =>
           ~ \E p \in TaskIds :
               /\ tasks[p].kind = "pipeline"
               /\ tasks[p].lesson = tasks[t].lesson
               /\ tasks[p].pc # "done"]_vars

\* C12: an update_lesson request, whatever its body and however it
\* interleaves with a background task, leaves the status a poller is given
\* for a lesson that has a status record as it was when the request saved.
C12_UpdateKeepsStatus ==
    [][\A l \in Lessons :
         (upd.lesson = l /\ upd'.lesson = 0 /\ dir[l] /\ statusFile[l].ex) =>
           StatusTriple(l)' = StatusTriple(l)]_vars

\* C14: when the pipeline marks a lesson completed its metadata record has
\* the title and tags of the upload (the default title when none was given),
\* and no status update of a task changes the title or tags of the record.
C14_UploadFieldsKept ==
    [][\A t \in TaskIds :
         LET l == tasks[t].lesson IN
         /\ (tasks[t].kind = "pipeline" /\ Returns(t) /\ tasks[t].err = "") =>
              /\ get_lesson_metadata(l)'.title =
                   (IF tasks[t].init = "" THEN "Lesson" ELSE tasks[t].init)
              /\ get_lesson_metadata(l)'.tags = tasks[t].tags
         /\ (tasks[t].kind # "none" /\ tasks'[t].written # tasks[t].written) =>
              /\ get_lesson_metadata(l)'.title = get_lesson_metadata(l).title
              /\ get_lesson_metadata(l)'.tags = get_lesson_metadata(l).tags]_vars

\* C15: the status query answers with the status record when there is one,
\* with unknown when the folder has none, and with not-found when there is no
\* such folder.
StatusRecordResponse(l) ==
    IF dir[l] /\ statusFile[l].ex
    THEN [code |-> 200, status |-> statusFile[l].status,
          progress |-> statusFile[l].progress, message |-> statusFile[l].message]
    ELSE IF dir[l]
    THEN [code |-> 200, status |-> "unknown", progress |-> 0,
          message |-> "No status info"]
    ELSE [code |-> 404, status |-> "", progress |-> 0, message |-> "Lesson not found"]

C15_QueryReturnsRecord ==
    \A l \in Lessons : get_lesson_status(l) = StatusRecordResponse(l)

\* C18: a step of a background task leaves the files, status and metadata of
\* every other lesson unchanged, and once the pipelines of two different
\* lessons have ended the global tag list holds the tags of both uploads.
C18_LessonsDoNotConflict ==
    [][/\ \A t \in TaskIds :
            (tasks[t].kind # "none" /\ tasks'[t] # tasks[t]) =>
              \A k \in Lessons \ {tasks[t].lesson} :
                /\ fs'[k] = fs[k]
                /\ statusFile'[k] = statusFile[k]
                /\ metaFile'[k] = metaFile[k]
       /\ \A t1, t2 \in TaskIds :
            (/\ tasks'[t1].kind = "pipeline" /\ tasks'[t2].kind = "pipeline"
             /\ tasks'[t1].lesson # tasks'[t2].lesson
             /\ tasks'[t1].pc = "done" /\ tasks'[t2].pc = "done") =>
              (tasks'[t1].tags \cup tasks'[t2].tags) \subseteq tagsFile']_vars

C20_SplitMergeRoundTrip ==
    (merge_exit = "returned" /\ FirstMissing(chunk_files) = 0) => merged = audio

\* C21: _split_audio returns ceil(duration / segment_time) chunks, and the
\* i-th chunk of the returned list holds the seconds (i - 1) * segment_time
\* up to i * segment_time of the input (the last one what is left): at most
\* segment_time long, consecutive, non-overlapping and in time order, for
\* every number of chunks.
C21_ChunksInTimeOrder ==
    (split_exit = "returned" /\ audio # <<>>) =>
      /\ Len(chunk_files) = (Len(audio) + segment_time - 1) \div segment_time
      /\ \A i \in 1..Len(chunk_files) :
           /\ Len(chunk_files[i].data) <= segment_time
           /\ chunk_files[i].data =
                SubSeq(audio, (i - 1) * segment_time + 1,
                       IF i * segment_time < Len(audio) THEN i * segment_time
                       ELSE Len(audio))

\* C22: _split_audio called on an input without samples or one that cannot be
\* opened raises and returns no list; _merge_audio_files called on an empty
\* list or on a list with a missing file raises and leaves no output file.
C22_SplitMergeErrors ==
    /\ (split_exit # "" /\ (audio = <<>> \/ ~readable)) =>
         split_exit = "CalledProcessError"
    /\ (merge_exit # "" /\ (chunk_files = <<>> \/ FirstMissing(chunk_files) # 0)) =>
         /\ merge_exit \in {"ValueError", "CalledProcessError"}
         /\ ~output_exists

\* C23: the number of points generate_peaks saves differs from
\* duration_seconds * points_per_second, the duration being decoded / 44100,
\* by at most one point.
C23_PointCount ==
    peaks_pc = "done" =>
      /\ peaks_len * SampleRate - decoded * points_per_second <= SampleRate
      /\ decoded * points_per_second - peaks_len * SampleRate <= SampleRate

\* C24: an extraction that failed (the track is missing or does not decode,
\* so that ffmpeg delivers no samples) writes no peak series: no lesson
\* folder ever holds the empty series such a run produces.
C24_FailedExtractionWritesNothing ==
    \A l \in Lessons, track \in Tracks : fs[l][PeaksFile(track)] # EmptyPeaks

C27_UploadReturnsBeforeStages ==
    [][\A l \in Lessons :
         (upl = l /\ upl' = 0 /\ nTasks' = nTasks + 1) =>
           /\ fs'[l]["original"] # NoFile
           /\ statusFile'[l] = StatusRecord("queued", 0, "In Queue")
           /\ StatusTriple(l)' =
                [status |-> "queued", progress |-> 0, message |-> "In Queue"]
           /\ tasks'[nTasks + 1].kind = "pipeline"
           /\ tasks'[nTasks + 1].lesson = l
           /\ tasks'[nTasks + 1].pc = "start"
           /\ tasks'[nTasks + 1].ran = {}
           /\ tasks'[nTasks + 1].written = <<>>]_vars

\* C28: a transcript request for a lesson without a transcript, or for an id
\* that has no folder, is answered with 404, not with 200 and an empty
\* transcript.
C28_TranscriptReadNotFound ==
    [][\A l \in Lessons :
         (response'.req = <<"transcript", l, "">>
          /\ (~dir[l] \/ get_lesson_metadata(l).transcript = 0)) =>
           response'.code = 404]_vars

\* C29: for a lesson that only one background task was ever dispatched for
\* (so that at most one is running at any time), every status the task
\* writes follows the status it replaces along one of queued -> processing,
\* processing -> processing, processing -> completed, processing -> failed,
\* completed -> processing, failed -> processing: a re-run does not replace
\* completed or failed by completed or failed.
StatusChanges ==
    {<<"queued", "processing">>, <<"processing", "processing">>,
     <<"processing", "completed">>, <<"processing", "failed">>,
     <<"completed", "processing">>, <<"failed", "processing">>}

C29_StatusTransitions ==
    [][\A l \in Lessons, t \in TaskIds :
         (/\ tasks[t].lesson = l
          /\ \A u \in TaskIds \ {t} : tasks[u].lesson # l
          /\ tasks'[t].written # tasks[t].written
          /\ get_lesson_status(l).status \in {"queued", "processing", "completed", "failed"}) =>
           <<get_lesson_status(l).status, get_lesson_status(l)'.status>> \in StatusChanges]_vars

\* C30: a pipeline run starts its stages one after the other in the order
\* separation, peak extraction, transcription, summarization: a stage starts
\* only when exactly the stages before it have run.  The peak step writes
\* the series of both tracks, and a transcription that succeeds has read
\* vocals.mp3, the merged track, after separate_audio has returned and has
\* dealt with its chunk directory.
PipelineOrder == <<"separate", "peaks", "transcribe", "summarize">>

C30_StagesInOrder ==
    [][\A t \in TaskIds, i \in 1..4 :
         (/\ tasks[t].kind = "pipeline"
          /\ PipelineOrder[i] \notin tasks[t].ran
          /\ PipelineOrder[i] \in tasks'[t].ran) =>
           /\ tasks[t].ran = {PipelineOrder[j] : j \in 1..(i - 1)}
           /\ tasks'[t].ran = tasks[t].ran \cup {PipelineOrder[i]}
           /\ (i = 2 /\ dir[tasks[t].lesson]) =>
                /\ fs'[tasks[t].lesson]["vocals_peaks"] # NoFile
                /\ fs'[tasks[t].lesson]["guitar_peaks"] # NoFile
           /\ (i = 3 /\ tasks'[t].pc # "except") =>
                /\ fs[tasks[t].lesson]["vocals"] # NoFile
                /\ tasks[t].cleanup # ""
                /\ tasks'[t].segs # NoFile]_vars

C30_Witness ==
    \E t \in TaskIds :
      /\ tasks[t].kind = "pipeline"
      /\ Completed(t)
      /\ tasks[t].ran = {"separate", "peaks", "transcribe", "summarize"}
      /\ fs[tasks[t].lesson]["vocals"] = t
      /\ fs[tasks[t].lesson]["transcript_json"] = t
\* C31: separate_audio starts demucs once per chunk of the list _split_audio
\* returned, the next one only when the one before has exited, in the order
\* of the list and on that chunk alone, never on the recording; the vocal
\* stems and the accompaniment stems have one entry per chunk, and vocals.mp3
\* and guitar.mp3 are the stems concatenated in that order.
C31_OneChunkPerInvocation ==
    /\ Len(demucs_calls) <= Len(chunk_files)
    /\ \A k \in 1..Len(demucs_calls) : demucs_calls[k] = chunk_files[k]
    /\ Len(guitar_chunks) = Len(vocab_chunks)
    /\ Len(demucs_calls) - Len(vocab_chunks) \in {0, 1}
    /\ sep_pc = "loop" => Len(demucs_calls) = Len(vocab_chunks)
    /\ \A k \in 1..Len(vocab_chunks) :
         /\ vocab_chunks[k] = Stem(chunk_files[k], "vocals")
         /\ guitar_chunks[k] \in {Stem(chunk_files[k], "guitar"),
                                  Stem(chunk_files[k], "other")}
    /\ (sep_pc = "merge_guitar" \/ sep_exit = "returned") =>
         /\ Len(demucs_calls) = Len(chunk_files)
         /\ Len(vocab_chunks) = Len(chunk_files)
         /\ target_vocals = merge_audio_files(chunk_files)
    /\ sep_exit = "returned" =>
         /\ Len(target_guitar) = Len(target_vocals)
         /\ \A k \in 1..Len(target_guitar) : target_guitar[k] = 0 - target_vocals[k]

C31_Witness ==
    /\ sep_pc = "done" /\ sep_exit = "returned"
    /\ Len(demucs_calls) = MaxChunks
    /\ Len(guitar_chunks) = MaxChunks

\* The samples of window k when the stream is cut every
\* SampleRate / points_per_second samples: sample i is in window k when
\* (k - 1) * SampleRate / points_per_second < i <= k * SampleRate / points_per_second.
WindowOf(k) ==
    {i \in 1..Len(samples) :
       /\ (k - 1) * SampleRate < i * points_per_second
       /\ i * points_per_second <= k * SampleRate}

NonEmptyWindows ==
    {k \in 1..(MaxStream * (SampleRate + 1)) \div SampleRate + 1 : WindowOf(k) # {}}

\* The j-th non-empty window, in stream order.
NthWindow(j) ==
    CHOOSE k \in NonEmptyWindows : Cardinality({m \in NonEmptyWindows : m <= k}) = j

\* C32: the series generate_peaks saves has exactly one point per non-empty
\* window of SampleRate / points_per_second samples, the trailing shorter one
\* included; each point is the (rounded) maximum absolute value of the
\* samples of its window and lies between 0.0 and 1.0; an empty stream gives
\* an empty series.
C32_OnePointPerWindow ==
    (peaks_pc = "done" /\ decoded = Len(samples)) =>
      /\ Len(peaks) = Cardinality(NonEmptyWindows)
      /\ \A j \in 1..Len(peaks) :
           /\ j <= Cardinality(NonEmptyWindows) =>
                peaks[j] = Round4(MaxAbs(WindowOf(NthWindow(j))))
           /\ 0 <= peaks[j] /\ peaks[j] <= FullScale
      /\ samples = <<>> => peaks = <<>>

\* C33: once every background task of a lesson has returned (and no request
\* on the lesson is being handled), status.json and the metadata record of
\* the lesson hold the same status.
C33_StatusRecordsAgree ==
    \A l \in Lessons :
      (/\ \E t \in TaskIds : tasks[t].lesson = l
       /\ \A t \in TaskIds : tasks[t].lesson = l => tasks[t].pc = "done"
       /\ upd.lesson # l
       /\ upl # l)
      => statusFile[l].status = metaFile[l].status

\* The (status, progress, message) triples a status update writes: the
\* upload's queued record, the updates of the pipeline and those of a re-run.
Errors ==
    {ErrNoOriginal, ErrNoVocals, ErrNoTranscript, ErrENOENT, ErrFfmpeg, ErrDemucs,
     ErrRmtree, ErrWhisper, ErrSummarize}

Triple(s, p, m) == [status |-> s, progress |-> p, message |-> m]

StatusUpdates ==
    {Triple("queued", 0, "In Queue"),
     Triple("processing", 5, "Separating Audio (Demucs)... This takes time."),
     Triple("processing", 15, "Generating Waveforms..."),
     Triple("processing", 50, "Transcribing Vocals (Whisper)..."),
     Triple("processing", 80, "Summarizing (LLM)..."),
     Triple("processing", 95, "Finalizing..."),
     Triple("completed", 100, "Ready")}
    \cup {Triple("failed", 0, PipelineMessage(e)) : e \in Errors}
    \cup {Triple("processing", 10, RerunMessage(kind)) : kind \in Stages}
    \cup {Triple("completed", 100, RerunDoneMessage(kind)) : kind \in Stages}
    \cup {Triple("failed", 0, RerunFailureMessage(e)) : e \in Errors}

\* C34: while a background task of a lesson is running, the answer of the
\* status query (given when no other request is being handled) is a triple
\* one single status update wrote, never the status of one update with the
\* progress or message of another.
C34_PollSeesOneUpdate ==
    \A l \in Lessons :
      (/\ upl = 0 /\ upd.lesson = 0
       /\ \E t \in TaskIds : tasks[t].lesson = l /\ Running(t)
       /\ get_lesson_status(l).code = 200)
      => StatusTriple(l) \in StatusUpdates

\* C35: a separate re-run that fails in separate_audio (at the split, at a
\* chunk's separation or at either merge) on a lesson that holds the two
\* tracks of one separation run leaves vocals.mp3 and guitar.mp3 as they were.
C35_FailedRerunKeepsTrackPair ==
    [][\A t \in TaskIds, l \in Lessons :
         (/\ tasks[t].kind = "separate" /\ tasks[t].lesson = l
          /\ fs[l]["vocals"] # NoFile /\ fs[l]["guitar"] = fs[l]["vocals"]
          /\ tasks[t].failedAt = "" /\ tasks'[t].failedAt = "separate")
         => /\ fs'[l]["vocals"] = fs[l]["vocals"]
            /\ fs'[l]["guitar"] = fs[l]["guitar"]]_vars

\* A lesson the data directory held before the request being handled: the
\* request itself has only created the folder and written original_raw.
ExistedBefore(l) ==
    /\ dir[l]
    /\ (l = upl =>
          \/ statusFile[l].ex
          \/ metaFile[l].ex
          \/ \E f \in FileNames \ {"original_raw"} : fs[l][f] # NoFile)

\* C36: when the normalization of an upload fails, no folder, status record
\* or metadata record is left for the generated id, no background task is
\* dispatched, and every lesson that existed before the request keeps its
\* folder, files, status record and metadata record.
C36_RejectedUploadLeavesNothing ==
    [][(upl # 0 /\ uplPc = "convert" /\ upl' = 0) =>
         /\ ~dir'[upl] /\ ~statusFile'[upl].ex /\ ~metaFile'[upl].ex
         /\ nTasks' = nTasks /\ tasks' = tasks
         /\ \A l \in Lessons :
              ExistedBefore(l) =>
                /\ dir'[l]
                /\ fs'[l] = fs[l]
                /\ statusFile'[l] = statusFile[l]
                /\ metaFile'[l] = metaFile[l]]_vars

\* C37: for a lesson id with no folder and no metadata record, the metadata
\* read and the metadata update answer 404, the update is refused before it
\* saves, and no request creates a folder or a metadata record for the id:
\* the status query goes on answering 404.
C37_UnknownIdStaysUnknown ==
    [][\A l \in Lessons :
         (~dir[l] /\ ~metaFile[l].ex) =>
           /\ (/\ response' # response
               /\ response'.req \in {<<"lesson", l, "">>, <<"update", l, "">>})
              => response'.code = 404
           /\ upd.lesson = 0 => upd'.lesson # l
           /\ ~dir'[l] /\ ~metaFile'[l].ex
           /\ get_lesson_status(l)'.code = 404]_vars

\* C38: a transcription request for a lesson without guitar.mp3 is answered
\* 404 (never 200 with notation); a request with end <= start for a lesson
\* that has the track is answered with the rest "z" and the pitch model is
\* not invoked.
C38_TranscriptionAnswers ==
    \A l \in Lessons :
      (Len(response.req) = 4 /\ response.req[1] = "abc" /\ response.req[2] = l) =>
        /\ ~(dir[l] /\ fs[l]["guitar"] # NoFile) => response.code = 404
        /\ (dir[l] /\ fs[l]["guitar"] # NoFile /\ response.req[4] <= response.req[3])
           => /\ response.code = 200
              /\ response.data.abc = "z"
              /\ ~response.data.predict

====
